---- MODULE Spec2Model ----
(***************************************************************************)
(* Verification model of the IRT-Wizard estimation engine                  *)
(* (backend/app/core/polytomous_engine.py, backend/app/core/irt_engine.py, *)
(* backend/app/api/v1/analysis.py).                                        *)
(*                                                                         *)
(* Real numbers are modelled in fixed point:                               *)
(*   - logits (theta, difficulty, thresholds, log-probabilities) are       *)
(*     integers in units of 1/MilliScale;                                  *)
(*   - probabilities and variances are integers in units of 1/ProbScale.   *)
(* exp, log and sqrt are computed by integer algorithms (range reduction   *)
(* plus a truncated series), not assumed.                                  *)
(***************************************************************************)
EXTENDS Integers, Sequences, FiniteSets, TLC

(***************************************************************************)
(* Fixed-point arithmetic                                                  *)
(***************************************************************************)
\* one logit is MilliScale units; probability one is ProbScale units
MilliScale == 10 * 100
ProbScale == 10 * MilliScale

\* a function or sequence as an explicit table of its values (an array)
Array(f) == f @@ << >>

Abs(x) == IF x < 0 THEN 0 - x ELSE x
Max2(a, b) == IF a >= b THEN a ELSE b
Min2(a, b) == IF a <= b THEN a ELSE b

\* np.clip(x, lo, hi)
Clip(x, lo, hi) == Max2(lo, Min2(hi, x))

\* a / b rounded to the nearest integer (b > 0), symmetric around zero
RDiv(a, b) == IF a >= 0 THEN (2 * a + b) \div (2 * b)
              ELSE 0 - ((2 * (0 - a) + b) \div (2 * b))

RECURSIVE SumSeq(_)
SumSeq(s) == IF s = << >> THEN 0 ELSE Head(s) + SumSeq(Tail(s))

RECURSIVE MaxSeq(_)
MaxSeq(s) == IF Len(s) = 1 THEN s[1] ELSE Max2(Head(s), MaxSeq(Tail(s)))

\* np.mean of a non-empty sequence
MeanSeq(s) == RDiv(SumSeq(s), Len(s))

\* floor(sqrt(n)) by Newton iteration
RECURSIVE SqrtIter(_, _)
SqrtIter(n, x) ==
    LET y == (x + n \div x) \div 2
    IN  IF y >= x THEN x ELSE SqrtIter(n, y)

ISqrt(n) == IF n <= 0 THEN 0 ELSE SqrtIter(n, n)

\* np.std (population standard deviation) of a sequence of milli values
StdSeq(s) ==
    LET m == MeanSeq(s)
        sq == Array([i \in 1..Len(s) |-> (s[i] - m) * (s[i] - m)])
    IN  ISqrt(SumSeq(sq) \div Len(s))

\* ln 2 in milli-units (0.693)
Ln2Milli == 7 * 99

\* ln(num / den) in milli-units, num > 0, den > 0:
\* range reduction to [1, 2) by doubling, then 2 * atanh((m-1)/(m+1))
RECURSIVE LnQ(_, _)
LnQ(num, den) ==
    IF num >= 2 * den THEN Ln2Milli + LnQ(num, 2 * den)
    ELSE IF num < den THEN LnQ(2 * num, den) - Ln2Milli
    ELSE LET z  == RDiv(MilliScale * (num - den), num + den)
             z2 == RDiv(z * z, MilliScale)
             z3 == RDiv(z * z2, MilliScale)
             z5 == RDiv(z3 * z2, MilliScale)
         IN  2 * z + RDiv(2 * z3, 3) + RDiv(2 * z5, 5)

\* exp(-n) for integer n, in units of 1e-6
ExpIntTable == << 1000000, 367879, 135335, 49787, 18316, 6738, 2479, 912,
                  335, 123, 45, 17, 6, 2, 1 >>

\* exp(-f/1000) in milli-units for 0 <= f < 1000 (Horner form of the series)
RECURSIVE ExpFracHorner(_, _)
ExpFracHorner(f, n) ==
    IF n > 7 THEN MilliScale
    ELSE MilliScale - RDiv(f * ExpFracHorner(f, n + 1), MilliScale * n)

\* the values exp(-f/1000), f = 0..999, tabulated once
ExpFracTable == Array([f \in 1..MilliScale |-> ExpFracHorner(f - 1, 1)])

\* exp(x / 1000) in units of 1/ProbScale for x <= 0
ExpNeg(x) ==
    LET a == 0 - x
        n == a \div MilliScale
        f == a % MilliScale
    IN  IF n >= Len(ExpIntTable) THEN 0
        ELSE RDiv(ExpIntTable[n + 1] * ExpFracTable[f + 1], 100 * MilliScale)

\* log-odds ln(p / (1 - p)) in milli-units of the proportion a / b after
\* np.clip(p, lo/100, hi/100)
LogitClipped(a, b, lo, hi) ==
    IF 100 * a < lo * b THEN LnQ(lo, 100 - lo)
    ELSE IF 100 * a > hi * b THEN LnQ(hi, 100 - hi)
    ELSE LnQ(a, b - a)

(***************************************************************************)
(* Response matrices                                                       *)
(*   a matrix is a sequence (persons) of sequences (items) of cells;       *)
(*   a cell is << >> for a missing value (NaN) and <<v>> for the value v.  *)
(***************************************************************************)
NaNCell == << >>
IsNaN(c) == c = NaNCell
Val(c) == c[1]

\* marker of a floating-point NaN among milli-valued results
NaNMilli == 0 - 1000000000

PersonsOf(data) == 1..Len(data)
ItemsOf(data) == 1..Len(data[1])
NPersonsOf(data) == Len(data)
NItemsOf(data) == Len(data[1])

\* the non-missing cells of a matrix, as (person, item) pairs
ValidCells(data) ==
    {c \in PersonsOf(data) \X ItemsOf(data) : ~IsNaN(data[c[1]][c[2]])}

\* np.unique(data[~np.isnan(data)]): the distinct non-missing values
UniqueVals(data) == {Val(data[c[1]][c[2]]) : c \in ValidCells(data)}

\* a remapping that assumes contiguous codes: v - min_response
ValMinusMin(unique_vals, v) == v - (CHOOSE u \in unique_vals : \A w \in unique_vals : u <= w)

\* position (0-based) of v in the sorted distinct values: val_to_cat[v]
ValToCat(unique_vals, v) == Cardinality({u \in unique_vals : u < v})

\* data_normalized: every value replaced by its category index and every
\* missing cell replaced by 0 (the "else 0" of the vectorized lookup)
DataNormalized(data) ==
    LET unique_vals == UniqueVals(data)
    IN  Array([i \in PersonsOf(data) |->
            Array([j \in ItemsOf(data) |->
                IF IsNaN(data[i][j]) THEN <<0>>
                ELSE <<ValToCat(unique_vals, Val(data[i][j]))>>])])

\* category_counts[k] = np.sum(data_normalized == k), k = 0..n_categories-1
CategoryCounts(data_normalized, n_categories) ==
    Array([k \in 1..n_categories |->
        Cardinality({c \in ValidCells(data_normalized) :
                        Val(data_normalized[c[1]][c[2]]) = k - 1})])

(***************************************************************************)
(* AUTO heuristic: _estimate_parameters_fallback                           *)
(***************************************************************************)
\* x - np.mean(x) for a sequence x
Centered(x) == LET m == MeanSeq(x) IN Array([i \in 1..Len(x) |-> x[i] - m])

ValidPersons(data, j) == {i \in PersonsOf(data) : ~IsNaN(data[i][j])}
ValidItems(data, i) == {j \in ItemsOf(data) : ~IsNaN(data[i][j])}

RECURSIVE SumOver(_, _)
\* sum of f[x] over the finite set S (f a function on S)
SumOver(f, S) ==
    IF S = {} THEN 0
    ELSE LET x == CHOOSE y \in S : TRUE IN f[x] + SumOver(f, S \ {x})

\* np.nansum(data[:, j]) and np.nansum(data[i, :])
ColumnSum(data, j) ==
    SumOver(Array([i \in ValidPersons(data, j) |-> Val(data[i][j])]), ValidPersons(data, j))
RowSum(data, i) ==
    SumOver(Array([j \in ValidItems(data, i) |-> Val(data[i][j])]), ValidItems(data, i))

\* difficulty = -logit(clip(nanmean(data[:, j]) / (n_categories - 1), 0.01, 0.99)),
\* centred; with a single category the proportion is 0/0, a NaN
FallbackDifficulty(data, n_categories) ==
    IF n_categories = 1 THEN Array([j \in ItemsOf(data) |-> NaNMilli])
    ELSE Centered(Array([j \in ItemsOf(data) |->
            0 - LogitClipped(ColumnSum(data, j),
                             Cardinality(ValidPersons(data, j)) * (n_categories - 1),
                             1, 99)]))

\* RSM: prop_above = np.nanmean(data > k) over every cell of the matrix
\* (a missing cell compares False and is counted in the mean)
RsmThresholds(data, n_categories) ==
    IF n_categories = 1 THEN << >>
    ELSE Centered(Array([k \in 1..(n_categories - 1) |->
            0 - LogitClipped(
                    Cardinality({c \in ValidCells(data) : Val(data[c[1]][c[2]]) > k - 1}),
                    NPersonsOf(data) * NItemsOf(data), 1, 99)]))

\* PCM: prop_above = np.mean(valid_data > k) over the item's valid cells
PcmThresholds(data, n_categories) ==
    Array([j \in ItemsOf(data) |->
        IF n_categories = 1 THEN << >>
        ELSE Centered(Array([k \in 1..(n_categories - 1) |->
                0 - LogitClipped(
                        Cardinality({i \in ValidPersons(data, j) : Val(data[i][j]) > k - 1}),
                        Cardinality(ValidPersons(data, j)), 1, 99)]))])

\* the model-type test of the engine: RSM, and everything else as PCM
IsRsm(model_type) == model_type = "RSM"

_estimate_parameters_fallback(data, n_categories, model_type) ==
    [difficulty |-> FallbackDifficulty(data, n_categories),
     thresholds |-> IF IsRsm(model_type) THEN RsmThresholds(data, n_categories)
                    ELSE PcmThresholds(data, n_categories)]

\* item_thresh = thresholds if model_type == RSM else thresholds[j]
ItemThresholds(thresholds, model_type, j) ==
    IF IsRsm(model_type) THEN thresholds ELSE thresholds[j]

(***************************************************************************)
(* Category probability model: compute_category_probability               *)
(***************************************************************************)
\* cumsum for category k (0-based): sum_{j<k} (theta - difficulty - tau_j),
\* clipped to [-700, 700]
RECURSIVE CumSum(_, _, _, _)
CumSum(theta, difficulty, thresholds, k) ==
    IF k = 0 THEN 0
    ELSE CumSum(theta, difficulty, thresholds, k - 1)
         + (theta - difficulty - thresholds[k])

ClippedCumSums(theta, difficulty, thresholds) ==
    Array([k \in 1..(Len(thresholds) + 1) |->
        IF k = 1 THEN 0
        ELSE Clip(CumSum(theta, difficulty, thresholds, k - 1),
                  0 - 700 * MilliScale, 700 * MilliScale)])

\* numerators / denominator for every category, in units of 1/ProbScale.
\* The exponentials are taken relative to the largest exponent, which leaves
\* each ratio unchanged; the denominator is at least exp(0) = 1, so the
\* "denominator < 1e-10" branch of the code is never taken.
CategoryProbabilities(theta, difficulty, thresholds) ==
    LET cs   == ClippedCumSums(theta, difficulty, thresholds)
        top  == MaxSeq(cs)
        num  == Array([k \in 1..Len(cs) |-> ExpNeg(cs[k] - top)])
        den  == SumSeq(num)
    IN  Array([k \in 1..Len(cs) |-> RDiv(num[k] * ProbScale, den)])

compute_category_probability(theta, difficulty, thresholds, category) ==
    CategoryProbabilities(theta, difficulty, thresholds)[category + 1]

\* ln of the lower clamp 1e-10 applied before taking logarithms, in milli
LnFloor == 0 - 23026

\* np.log(np.clip(p_k, 1e-10, 1)) for every category, in milli-units:
\* ln p_k = cumsum_k - max - ln(sum_m exp(cumsum_m - max))
CategoryLogProbabilities(theta, difficulty, thresholds) ==
    LET cs   == ClippedCumSums(theta, difficulty, thresholds)
        top  == MaxSeq(cs)
        num  == Array([k \in 1..Len(cs) |-> ExpNeg(cs[k] - top)])
        lden == LnQ(SumSeq(num), ProbScale)
    IN  Array([k \in 1..Len(cs) |-> Max2(LnFloor, Min2(0, cs[k] - top - lden))])

(***************************************************************************)
(* Ability estimation (EAP): _estimate_abilities_polytomous               *)
(***************************************************************************)
\* n_quad
NQuad == 21

\* np.linspace(-4, 4, n_quad), in milli-units
QuadPoints ==
    Array([q \in 1..NQuad |-> 0 - 4 * MilliScale + RDiv(8 * MilliScale * (q - 1), NQuad - 1)])

\* exp(-x^2 / 2); the factor 1/sqrt(2 pi) cancels in the normalisation
QuadWeightsRaw ==
    Array([q \in 1..NQuad |->
        ExpNeg(0 - RDiv(QuadPoints[q] * QuadPoints[q], 2 * MilliScale))])

\* quad_weights / np.sum(quad_weights), in units of 1/ProbScale
QuadWeights ==
    Array([q \in 1..NQuad |-> RDiv(QuadWeightsRaw[q] * ProbScale, SumSeq(QuadWeightsRaw))])

\* log_probs[q, j, k]: the log-probability of category k of item j at
\* quadrature point q (_compute_all_log_probs_vectorized)
_compute_all_log_probs_vectorized(difficulty, thresholds, n_items, model_type) ==
    Array([q \in 1..NQuad |->
        Array([j \in 1..n_items |->
            CategoryLogProbabilities(QuadPoints[q], difficulty[j],
                ItemThresholds(thresholds, model_type, j))])])

\* theta_i = sum_q quad_points[q] * posterior[i, q], where
\* log_likelihoods[i, q] sums log_probs[q, j, data[i, j]] over the person's
\* valid items (missing cells contribute 0.0)
EapTheta(data, log_probs, i) ==
    LET ll    == Array([q \in 1..NQuad |->
                    SumOver(Array([j \in ValidItems(data, i) |->
                                log_probs[q][j][Val(data[i][j]) + 1]]),
                            ValidItems(data, i))])
        top   == MaxSeq(ll)
        posterior == Array([q \in 1..NQuad |->
                        RDiv(ExpNeg(ll[q] - top) * QuadWeights[q], ProbScale)])
    IN  RDiv(SumSeq(Array([q \in 1..NQuad |-> QuadPoints[q] * posterior[q]])),
             SumSeq(posterior))

\* With one category the RSM branch multiplies the NaN difficulty by k = 0,
\* which is NaN, so every theta is NaN; the PCM branch never reads it.
_estimate_abilities_polytomous(data, difficulty, thresholds, model_type) ==
    LET n_categories == IF IsRsm(model_type) THEN Len(thresholds) + 1
                        ELSE Len(thresholds[1]) + 1
        log_probs == _compute_all_log_probs_vectorized(difficulty, thresholds,
                                                       NItemsOf(data), model_type)
    IN  IF n_categories = 1 /\ IsRsm(model_type)
        THEN Array([i \in PersonsOf(data) |-> NaNMilli])
        ELSE Array([i \in PersonsOf(data) |-> EapTheta(data, log_probs, i)])

(***************************************************************************)
(* Log-likelihood and item fit                                             *)
(***************************************************************************)
\* sum over the non-missing cells of log(max(p_k, 1e-10)), in milli-units
compute_polytomous_log_likelihood(data, difficulty, thresholds, theta, model_type) ==
    SumOver(Array([c \in ValidCells(data) |->
                CategoryLogProbabilities(theta[c[1]], difficulty[c[2]],
                    ItemThresholds(thresholds, model_type, c[2]))[Val(data[c[1]][c[2]]) + 1]]),
            ValidCells(data))

\* E[X] and the variance E[X^2] - E[X]^2 floored at floor, units of 1/ProbScale
ExpectedScore(probs) == SumSeq(Array([k \in 1..Len(probs) |-> (k - 1) * probs[k]]))
ScoreVariance(probs, floor) ==
    LET e  == ExpectedScore(probs)
        e2 == SumSeq(Array([k \in 1..Len(probs) |-> (k - 1) * (k - 1) * probs[k]]))
    IN  Max2(e2 - RDiv(e * e, ProbScale), floor)

\* squared residual (observed - E[X])^2 in units of 1/ProbScale
SquaredResidual(x, probs) ==
    LET r == x * ProbScale - ExpectedScore(probs) IN RDiv(r * r, ProbScale)

\* infit and outfit mean squares of item j, in milli-units; an item without
\* valid responses keeps the initial 1.0.  (The standardised forms are a
\* fixed transform of these two and of n_valid and are not modelled.)
ItemFit(data, difficulty, thresholds, theta, model_type, j) ==
    LET valid == ValidPersons(data, j)
        probs == Array([i \in valid |->
                    CategoryProbabilities(theta[i], difficulty[j],
                        ItemThresholds(thresholds, model_type, j))])
        var   == Array([i \in valid |-> ScoreVariance(probs[i], ProbScale \div 100)])
        res2  == Array([i \in valid |-> SquaredResidual(Val(data[i][j]), probs[i])])
        z2    == Array([i \in valid |-> RDiv(res2[i] * MilliScale, var[i])])
    IN  IF valid = {} THEN [infit_mnsq |-> MilliScale, outfit_mnsq |-> MilliScale]
        ELSE [outfit_mnsq |-> RDiv(SumOver(z2, valid), Cardinality(valid)),
              infit_mnsq  |-> RDiv(SumOver(Array([i \in valid |-> z2[i] * var[i]]), valid),
                                   SumOver(var, valid))]

compute_fit_statistics(data, difficulty, thresholds, theta, model_type) ==
    Array([j \in ItemsOf(data) |->
        ItemFit(data, difficulty, thresholds, theta, model_type, j)])

(***************************************************************************)
(* JMLE: _estimate_jmle                                                    *)
(***************************************************************************)
\* max_iter and convergence_threshold (0.005, in milli-units)
MaxIter == 50
ConvergenceThreshold == 5

RawScores(data) == Array([i \in PersonsOf(data) |-> RowSum(data, i)])
MaxScore(data, n_categories) == NItemsOf(data) * (n_categories - 1)

\* mean_prop > 0.65 and mean_prop < 0.35, compared exactly
IsCeiling(data, n_categories) ==
    n_categories > 1 /\
    100 * SumSeq(RawScores(data)) > 65 * NPersonsOf(data) * MaxScore(data, n_categories)
IsFloor(data, n_categories) ==
    n_categories > 1 /\
    100 * SumSeq(RawScores(data)) < 35 * NPersonsOf(data) * MaxScore(data, n_categories)

\* the active ability range
ThetaLow(data, n_categories) ==
    IF IsCeiling(data, n_categories) THEN 0 - 3500
    ELSE IF IsFloor(data, n_categories) THEN 0 - 4500 ELSE 0 - 4000
ThetaHigh(data, n_categories) ==
    IF IsCeiling(data, n_categories) THEN 4500
    ELSE IF IsFloor(data, n_categories) THEN 3500 ELSE 4000

ClipTheta(data, n_categories, theta) ==
    Array([i \in 1..Len(theta) |->
        Clip(theta[i], ThetaLow(data, n_categories), ThetaHigh(data, n_categories))])

\* a limit of 5 iterations whatever the data
ThetaIterLimitAlwaysFive(data, n_categories) == 5

\* theta_iter_limit
ThetaIterLimit(data, n_categories) ==
    IF IsCeiling(data, n_categories) \/ IsFloor(data, n_categories) THEN 3 ELSE 5

\* initial theta: raw-score logits, rescaled and clipped to the active range;
\* with one category every proportion is 0/0 and theta is NaN throughout
JmleInitialTheta(data, n_categories) ==
    IF n_categories = 1 THEN Array([i \in PersonsOf(data) |-> NaNMilli])
    ELSE
    LET raw    == RawScores(data)
        logits == Array([i \in PersonsOf(data) |->
                     LogitClipped(raw[i], MaxScore(data, n_categories), 1, 99)])
        sd     == StdSeq(logits)
        mu     == MeanSeq(logits)
        extreme == IsCeiling(data, n_categories) \/ IsFloor(data, n_categories)
        spread == IF extreme THEN 1600 ELSE 1500
        scaled == IF sd > 10
                  THEN Array([i \in PersonsOf(data) |-> RDiv((logits[i] - mu) * spread, sd)])
                  ELSE logits
        shifted == IF extreme
                   THEN Array([i \in PersonsOf(data) |-> scaled[i] + RDiv(mu * 6, 10)])
                   ELSE Centered(scaled)
    IN  ClipTheta(data, n_categories, shifted)

\* probs / (np.sum(probs) + 1e-10)
Renormalised(probs) ==
    LET total == SumSeq(probs)
    IN  Array([k \in 1..Len(probs) |-> RDiv(probs[k] * ProbScale, total)])

\* obs_sum - exp_sum and info_sum over the cells in `cells` (pairs i, j),
\* in units of 1/ProbScale; the variance of each cell is floored at 0.1
ScoreGap(data, difficulty, thresholds, theta, model_type, cells) ==
    LET probs == Array([c \in cells |->
                    Renormalised(CategoryProbabilities(theta[c[1]], difficulty[c[2]],
                        ItemThresholds(thresholds, model_type, c[2])))])
    IN  [gap  |-> SumOver(Array([c \in cells |->
                     Val(data[c[1]][c[2]]) * ProbScale - ExpectedScore(probs[c])]), cells),
         info |-> SumOver(Array([c \in cells |->
                     ScoreVariance(probs[c], ProbScale \div 10)]), cells)]

\* the damped, clamped Newton step: clip(step * gap / info, -bound, bound),
\* applied only if info_sum > 0.1
NewtonUpdate(g, step, bound) ==
    IF g.info > ProbScale \div 10
    THEN Clip(RDiv(step * g.gap, g.info), 0 - bound, bound)
    ELSE 0

\* one pass of the item loop followed by the re-centring
JmleDifficultyStep(data, difficulty, thresholds, theta, model_type) ==
    Centered(Array([j \in ItemsOf(data) |->
        difficulty[j] - NewtonUpdate(
            ScoreGap(data, difficulty, thresholds, theta, model_type,
                     {c \in ValidCells(data) : c[2] = j}), 200, 300)]))

\* one pass of the person loop followed by the clip to the active range
JmleThetaStep(data, n_categories, difficulty, thresholds, theta, model_type) ==
    ClipTheta(data, n_categories,
        Array([i \in PersonsOf(data) |->
            IF ValidItems(data, i) = {} THEN theta[i]
            ELSE theta[i] + NewtonUpdate(
                    ScoreGap(data, difficulty, thresholds, theta, model_type,
                             {c \in ValidCells(data) : c[1] = i}), 100, 200)]))

\* np.max(np.abs(difficulty - old_difficulty))
DiffChange(difficulty, old_difficulty) ==
    MaxSeq(Array([j \in 1..Len(difficulty) |-> Abs(difficulty[j] - old_difficulty[j])]))

\* the body of one iteration of the loop (iteration is the 0-based index).
\* With one category the difficulties and thetas are NaN, every update adds
\* 0 to NaN, and diff_change is NaN, which is not below the threshold.
JmleIteration(data, n_categories, model_type, difficulty, thresholds, theta, iteration) ==
    IF n_categories = 1
    THEN [difficulty |-> difficulty, theta |-> theta, below |-> FALSE]
    ELSE
    LET new_difficulty == JmleDifficultyStep(data, difficulty, thresholds, theta, model_type)
        new_theta == IF iteration < ThetaIterLimit(data, n_categories)
                     THEN JmleThetaStep(data, n_categories, new_difficulty,
                                        thresholds, theta, model_type)
                     ELSE theta
    IN  [difficulty |-> new_difficulty,
         theta |-> new_theta,
         below |-> DiffChange(new_difficulty, difficulty) < ConvergenceThreshold]

(***************************************************************************)
(* MML: parameters derived from the external optimizer's estimates        *)
(***************************************************************************)
\* difficulty = mean of each item's step difficulties, centred
MmlDifficulty(step_difficulties) ==
    Centered(Array([j \in 1..Len(step_difficulties) |-> MeanSeq(step_difficulties[j])]))

\* RSM: column means of the row-centred steps; PCM: steps minus difficulty
MmlThresholds(step_difficulties, model_type) ==
    IF IsRsm(model_type)
    THEN LET centred == Array([j \in 1..Len(step_difficulties) |->
                            Centered(step_difficulties[j])])
         IN  Array([k \in 1..Len(step_difficulties[1]) |->
                MeanSeq(Array([j \in 1..Len(step_difficulties) |-> centred[j][k]]))])
    ELSE LET difficulty == MmlDifficulty(step_difficulties)
         IN  Array([j \in 1..Len(step_difficulties) |->
                Array([k \in 1..Len(step_difficulties[j]) |->
                    step_difficulties[j][k] - difficulty[j]])])

\* the optimizer's abilities rescaled to the mean and spread of the
\* raw-score logits (proportions clipped to [0.02, 0.98])
MmlTheta(girth_theta, data, n_categories) ==
    LET raw    == RawScores(data)
        target == Array([i \in PersonsOf(data) |->
                     LogitClipped(raw[i], MaxScore(data, n_categories), 2, 98)])
    IN  IF StdSeq(girth_theta) > 10
        THEN Array([i \in PersonsOf(data) |->
                RDiv((girth_theta[i] - MeanSeq(girth_theta)) * StdSeq(target),
                     StdSeq(girth_theta)) + MeanSeq(target)])
        ELSE target

(***************************************************************************)
(* Model fit indices                                                       *)
(***************************************************************************)
\* the parameter count of every model type as n_items + n_categories - 1
RsmNParamsForAll(model_type, n_items, n_categories) == n_items + (n_categories - 1)

\* n_params of fit_polytomous_model: RSM, and everything else as PCM
PolytomousNParams(model_type, n_items, n_categories) ==
    IF IsRsm(model_type) THEN n_items + (n_categories - 1)
    ELSE n_items * n_categories

\* aic = 2 * n_params - 2 * log_likelihood (milli-units)
Aic(n_params, log_likelihood) == 2 * MilliScale * n_params - 2 * log_likelihood

\* bic = n_params * ln(n_persons) - 2 * log_likelihood (milli-units)
Bic(n_params, n_persons, log_likelihood) ==
    n_params * LnQ(n_persons, 1) - 2 * log_likelihood

(***************************************************************************)
(* State                                                                   *)
(***************************************************************************)
VARIABLES
    fits,             \* the fit_polytomous_model calls in progress: id -> locals
    sigalrm_handler,  \* the process's SIGALRM handler
    alarm,            \* the pending alarm of the process (seconds and who armed it)
    killed,           \* TRUE once a signal with the default action has arrived
    dich,             \* the fit_model call in progress (its locals)
    task,             \* the analysis request in progress (dataset, record, locals)
    shape,            \* the matrix shape whose fit indices are compared
    post              \* the post-fit analysis call in progress (DIF, PCAR, category table)

vars == <<fits, sigalrm_handler, alarm, killed, dich, task, shape, post>>

\* the variables a step of fit_polytomous_model never touches
notPoly == <<dich, task, shape, post>>

\* a machine that takes no part in a specification
Idle == [pc |-> "idle"]

\* the value None
None == <<"None">>

\* the handler a process starts with (SIG_DFL)
DefaultHandler == <<"SIG_DFL">>

\* the closure timeout_handler defined by call f
TimeoutHandler(f) == <<"timeout_handler", f>>

\* signal.alarm(60)
AlarmSeconds == 60

\* a handler installed by the host application before any fit
AppHandler == <<"app_handler">>

(***************************************************************************)
(* fit_polytomous_model, one action per stage of the call                  *)
(***************************************************************************)
\* the locals of a call at entry.  optimizer describes what the external
\* girth.pcm_mml would do on this call's matrix: "returns" (with estimates)
\* or "raises" before the deadline, or "hangs" beyond it.
Call(data, model_type, use_mml, estimation_mode, thread, optimizer) ==
    [pc |-> "start", thread |-> thread, data |-> data, model_type |-> model_type,
     use_mml |-> use_mml, estimation_mode |-> estimation_mode,
     optimizer |-> optimizer,
     n_categories |-> 0, data_normalized |-> << >>, category_counts |-> << >>,
     effective_mode |-> "unbound", difficulty |-> << >>, thresholds |-> << >>,
     old_difficulty |-> << >>,
     theta |-> None, converged |-> TRUE, iteration |-> 0, below |-> FALSE,
     old_handler |-> None, result |-> None]

\* effective_mode (the legacy use_mml flag turns AUTO into MML)
EffectiveMode(use_mml, estimation_mode) ==
    IF use_mml /\ estimation_mode = "auto" THEN "mml" ELSE estimation_mode

\* lines 87-114: category remapping, category counts, effective mode;
\* unique_vals[0] raises IndexError when every cell is missing
Remapped(c) ==
    LET n_categories == Cardinality(UniqueVals(c.data))
        data_normalized == DataNormalized(c.data)
    IN  IF n_categories = 0 THEN [c EXCEPT !.pc = "raised"]
        ELSE [c EXCEPT !.pc = "estimate",
                       !.n_categories = n_categories,
                       !.data_normalized = data_normalized,
                       !.category_counts = CategoryCounts(data_normalized, n_categories),
                       !.effective_mode = EffectiveMode(c.use_mml, c.estimation_mode)]

Remap(f) ==
    /\ fits[f].pc = "start"
    /\ fits' = [fits EXCEPT ![f] = Remapped(fits[f])]
    /\ UNCHANGED <<sigalrm_handler, alarm, killed, notPoly>>

\* a fallback that leaves the converged flag as the call initialised it
WithFallbackKeepingFlag(c, converged) ==
    LET fb == _estimate_parameters_fallback(c.data_normalized, c.n_categories, c.model_type)
    IN  [c EXCEPT !.pc = "estimated", !.difficulty = fb.difficulty,
                  !.thresholds = fb.thresholds, !.theta = None]

\* the locals after the AUTO heuristic has been used as the estimate
WithFallback(c, converged) ==
    LET fb == _estimate_parameters_fallback(c.data_normalized, c.n_categories, c.model_type)
    IN  [c EXCEPT !.pc = "estimated", !.difficulty = fb.difficulty,
                  !.thresholds = fb.thresholds, !.theta = None,
                  !.converged = converged]

\* an AUTO branch that keeps the difficulties of the fit that ran before it
\* in the process as its own
EstimateAutoReusingLast(f) ==
    /\ fits[f].pc = "estimate"
    /\ fits[f].effective_mode \notin {"jmle", "mml"}
    /\ LET fresh == WithFallback(fits[f], TRUE)
       IN  fits' = [fits EXCEPT ![f] =
                IF f > 1 /\ fits[f - 1].pc = "done"
                   /\ Len(fits[f - 1].difficulty) = Len(fresh.difficulty)
                THEN [fresh EXCEPT !.difficulty = fits[f - 1].difficulty]
                ELSE fresh]
    /\ UNCHANGED <<sigalrm_handler, alarm, killed, notPoly>>

\* an AUTO branch that reports the heuristic estimate as not converged
EstimateAutoUnconverged(f) ==
    /\ fits[f].pc = "estimate"
    /\ fits[f].effective_mode \notin {"jmle", "mml"}
    /\ fits' = [fits EXCEPT ![f] = WithFallback(fits[f], FALSE)]
    /\ UNCHANGED <<sigalrm_handler, alarm, killed, notPoly>>

\* lines 182-184: the else branch (AUTO)
EstimateAuto(f) ==
    /\ fits[f].pc = "estimate"
    /\ fits[f].effective_mode \notin {"jmle", "mml"}
    /\ fits' = [fits EXCEPT ![f] = WithFallback(fits[f], TRUE)]
    /\ UNCHANGED <<sigalrm_handler, alarm, killed, notPoly>>

\* lines 120-123 and 375-419: entry of _estimate_jmle up to the loop
JmleStarted(c) ==
    LET fb == _estimate_parameters_fallback(c.data_normalized, c.n_categories,
                                            c.model_type)
    IN  [c EXCEPT !.pc = "jmle", !.difficulty = fb.difficulty,
                  !.thresholds = fb.thresholds,
                  !.theta = JmleInitialTheta(c.data_normalized, c.n_categories),
                  !.converged = FALSE, !.iteration = 0]

JmleStart(f) ==
    /\ fits[f].pc = "estimate"
    /\ fits[f].effective_mode = "jmle"
    /\ fits' = [fits EXCEPT ![f] = JmleStarted(fits[f])]
    /\ UNCHANGED <<sigalrm_handler, alarm, killed, notPoly>>

\* a loop without the break: it always runs to the end of range(max_iter)
JmleIterateWithoutBreak(f) ==
    /\ fits[f].pc = "jmle"
    /\ fits[f].iteration < MaxIter
    /\ LET c  == fits[f]
           it == JmleIteration(c.data_normalized, c.n_categories, c.model_type,
                               c.difficulty, c.thresholds, c.theta, c.iteration)
       IN  fits' = [fits EXCEPT ![f] =
                [c EXCEPT !.old_difficulty = c.difficulty,
                          !.difficulty = it.difficulty, !.theta = it.theta,
                          !.iteration = c.iteration + 1, !.below = it.below,
                          !.converged = c.converged \/ it.below,
                          !.pc = IF c.iteration + 1 = MaxIter
                                 THEN "estimated" ELSE "jmle"]]
    /\ UNCHANGED <<sigalrm_handler, alarm, killed, notPoly>>

\* a round of the loop that also re-centres the thresholds on the new
\* difficulties
JmleSteppedMovingThresholds(c) ==
    LET it == JmleIteration(c.data_normalized, c.n_categories, c.model_type,
                            c.difficulty, c.thresholds, c.theta, c.iteration)
    IN  [c EXCEPT !.old_difficulty = c.difficulty,
                  !.difficulty = it.difficulty, !.theta = it.theta,
                  !.thresholds = IF IsRsm(c.model_type)
                                 THEN Array([k \in DOMAIN c.thresholds |->
                                        c.thresholds[k] + it.difficulty[1] - c.difficulty[1]])
                                 ELSE Array([j \in DOMAIN c.thresholds |->
                                        Array([k \in DOMAIN c.thresholds[j] |->
                                            c.thresholds[j][k]
                                            + it.difficulty[j] - c.difficulty[j]])]),
                  !.iteration = c.iteration + 1, !.below = it.below,
                  !.converged = it.below,
                  !.pc = IF it.below \/ c.iteration + 1 = MaxIter
                         THEN "estimated" ELSE "jmle"]

\* lines 421-498: one round of the loop; the loop ends by the break or when
\* range(max_iter) is exhausted
JmleStepped(c) ==
    LET it == JmleIteration(c.data_normalized, c.n_categories, c.model_type,
                            c.difficulty, c.thresholds, c.theta, c.iteration)
    IN  [c EXCEPT !.old_difficulty = c.difficulty,
                  !.difficulty = it.difficulty, !.theta = it.theta,
                  !.iteration = c.iteration + 1, !.below = it.below,
                  !.converged = it.below,
                  !.pc = IF it.below \/ c.iteration + 1 = MaxIter
                         THEN "estimated" ELSE "jmle"]

JmleIterate(f) ==
    /\ fits[f].pc = "jmle"
    /\ fits[f].iteration < MaxIter
    /\ fits' = [fits EXCEPT ![f] = JmleStepped(fits[f])]
    /\ UNCHANGED <<sigalrm_handler, alarm, killed, notPoly>>

\* _estimate_jmle from the entry of the loop to its end
RECURSIVE JmleLoop(_)
JmleLoop(c) == IF c.pc = "jmle" THEN JmleLoop(JmleStepped(c)) ELSE c

\* signal.signal succeeding in every thread
CanSetHandlerAnywhere(thread) == TRUE

\* signal.signal works only in the main thread of the main interpreter and
\* raises ValueError elsewhere
CanSetHandler(thread) == thread = "main"

\* a setup that installs the handler and arms no alarm
MmlSetupWithoutAlarm(f) ==
    /\ fits[f].pc = "estimate"
    /\ fits[f].effective_mode = "mml"
    /\ IF CanSetHandler(fits[f].thread)
       THEN /\ fits' = [fits EXCEPT ![f] =
                    [fits[f] EXCEPT !.pc = "optimizing", !.old_handler = sigalrm_handler]]
            /\ sigalrm_handler' = TimeoutHandler(f)
            /\ UNCHANGED alarm
       ELSE /\ fits' = [fits EXCEPT ![f] = WithFallback(fits[f], FALSE)]
            /\ UNCHANGED <<sigalrm_handler, alarm>>
    /\ UNCHANGED <<killed, notPoly>>

\* lines 126-140: the handler is installed and the alarm armed; a ValueError
\* of signal.signal is caught by the outer except (lines 177-180)
MmlSetup(f) ==
    /\ fits[f].pc = "estimate"
    /\ fits[f].effective_mode = "mml"
    /\ IF CanSetHandler(fits[f].thread)
       THEN /\ fits' = [fits EXCEPT ![f] =
                    [fits[f] EXCEPT !.pc = "optimizing", !.old_handler = sigalrm_handler]]
            /\ sigalrm_handler' = TimeoutHandler(f)
            /\ alarm' = [seconds |-> AlarmSeconds, armed_by |-> f]
       ELSE /\ fits' = [fits EXCEPT ![f] = WithFallback(fits[f], FALSE)]
            /\ UNCHANGED <<sigalrm_handler, alarm>>
    /\ UNCHANGED <<killed, notPoly>>

\* no alarm pending
NoAlarm == [seconds |-> 0, armed_by |-> 0]

\* lines 142-175: girth.pcm_mml returns; the finally block cancels the alarm
\* and restores the handler; the parameters are derived from the estimates
MmlReturned(c) ==
    LET step_difficulties == c.optimizer.Difficulty
    IN  [c EXCEPT !.pc = "estimated",
                  !.difficulty = MmlDifficulty(step_difficulties),
                  !.thresholds = MmlThresholds(step_difficulties, c.model_type),
                  !.theta = MmlTheta(c.optimizer.Ability, c.data_normalized,
                                     c.n_categories),
                  !.converged = TRUE]

OptimizerReturns(f) ==
    /\ fits[f].pc = "optimizing"
    /\ fits[f].optimizer.kind = "returns"
    /\ fits' = [fits EXCEPT ![f] = MmlReturned(fits[f])]
    /\ alarm' = NoAlarm
    /\ sigalrm_handler' = fits[f].old_handler
    /\ UNCHANGED <<killed, notPoly>>

\* an exception of girth.pcm_mml that reaches the except branch without the
\* finally block: the alarm stays armed and the handler installed
OptimizerRaisesWithoutFinally(f) ==
    /\ fits[f].pc = "optimizing"
    /\ fits[f].optimizer.kind = "raises"
    /\ fits' = [fits EXCEPT ![f] = WithFallback(fits[f], FALSE)]
    /\ UNCHANGED <<alarm, sigalrm_handler, killed, notPoly>>

\* lines 142-148 and 177-180: girth.pcm_mml raises; finally, then the
\* except branch falls back to the AUTO heuristic with converged = False
OptimizerRaises(f) ==
    /\ fits[f].pc = "optimizing"
    /\ fits[f].optimizer.kind = "raises"
    /\ fits' = [fits EXCEPT ![f] = WithFallback(fits[f], FALSE)]
    /\ alarm' = NoAlarm
    /\ sigalrm_handler' = fits[f].old_handler
    /\ UNCHANGED <<killed, notPoly>>

\* the fit that runs in the main thread, where Python runs signal handlers
MainFits == {f \in DOMAIN fits : fits[f].pc # "idle" /\ fits[f].thread = "main"}

\* The pending alarm expires (the call that armed it has not returned within
\* the deadline).  SIGALRM is handled in the main thread: timeout_handler
\* raises TimeoutError there; inside the try block (lines 142-148) it runs
\* the finally block and the except branch; the default action ends the
\* process; any other handler returns.
AlarmFires ==
    /\ alarm.seconds > 0
    /\ ~killed
    /\ alarm.armed_by \in DOMAIN fits
    /\ fits[alarm.armed_by].pc = "optimizing"
    /\ fits[alarm.armed_by].optimizer.kind = "hangs"
    /\ IF sigalrm_handler = DefaultHandler
       THEN /\ killed' = TRUE
            /\ alarm' = NoAlarm
            /\ UNCHANGED <<fits, sigalrm_handler>>
       ELSE IF sigalrm_handler[1] = "timeout_handler"
       THEN /\ fits' = [f \in DOMAIN fits |->
                    IF f \notin MainFits \/ fits[f].pc \in {"done", "raised"}
                        THEN fits[f]
                    ELSE IF fits[f].pc = "optimizing"
                        THEN WithFallback(fits[f], FALSE)
                    ELSE [fits[f] EXCEPT !.pc = "raised"]]
            /\ IF \E f \in MainFits : fits[f].pc = "optimizing"
               THEN /\ alarm' = NoAlarm
                    /\ sigalrm_handler' =
                          fits[CHOOSE f \in MainFits : fits[f].pc = "optimizing"].old_handler
               ELSE /\ alarm' = NoAlarm
                    /\ UNCHANGED sigalrm_handler
            /\ UNCHANGED killed
       ELSE /\ alarm' = NoAlarm
            /\ UNCHANGED <<fits, sigalrm_handler, killed>>
    /\ UNCHANGED notPoly

\* lines 186-248: abilities (unless the estimation provided them), item
\* fit, log-likelihood, parameter count, AIC, BIC and the result object
PolytomousAnalysisResult(c) ==
    LET theta == IF c.theta # None THEN c.theta
                 ELSE _estimate_abilities_polytomous(c.data_normalized, c.difficulty,
                                                     c.thresholds, c.model_type)
        log_likelihood == compute_polytomous_log_likelihood(
                             c.data_normalized, c.difficulty, c.thresholds, theta,
                             c.model_type)
        n_params == PolytomousNParams(c.model_type, NItemsOf(c.data), c.n_categories)
    IN  [model_type |-> c.model_type,
         difficulty |-> c.difficulty,
         thresholds |-> c.thresholds,
         item_fit |-> compute_fit_statistics(c.data_normalized, c.difficulty,
                                             c.thresholds, theta, c.model_type),
         theta |-> theta,
         converged |-> c.converged,
         n_categories |-> c.n_categories,
         category_counts |-> c.category_counts,
         model_fit |->
            [log_likelihood |-> log_likelihood,
             aic |-> Aic(n_params, log_likelihood),
             bic |-> Bic(n_params, NPersonsOf(c.data), log_likelihood),
             n_parameters |-> n_params,
             n_items |-> NItemsOf(c.data),
             n_persons |-> NPersonsOf(c.data),
             n_categories |-> c.n_categories]]

Finish(f) ==
    /\ fits[f].pc = "estimated"
    /\ ~killed
    /\ fits' = [fits EXCEPT ![f] =
            [fits[f] EXCEPT !.pc = "done", !.result = PolytomousAnalysisResult(fits[f])]]
    /\ UNCHANGED <<sigalrm_handler, alarm, killed, notPoly>>

(***************************************************************************)
(* fit_model (dichotomous 1PL / 2PL / 3PL), irt_engine.py                  *)
(***************************************************************************)
\* compute_probability: c + (1 - c) / (1 + exp(-a (theta - b))), in units of
\* 1/ProbScale; a, b, theta in milli-units, c in units of 1/ProbScale
compute_probability(theta, difficulty, discrimination, guessing) ==
    LET exponent == Clip(RDiv(discrimination * (theta - difficulty), MilliScale),
                         0 - 700 * MilliScale, 700 * MilliScale)
        logistic == IF exponent >= 0
                    THEN RDiv(ProbScale * ProbScale, ProbScale + ExpNeg(0 - exponent))
                    ELSE RDiv(ProbScale * ExpNeg(exponent), ProbScale + ExpNeg(exponent))
    IN  guessing + RDiv((ProbScale - guessing) * logistic, ProbScale)

\* np.log(np.clip(p, 1e-10, 1 - 1e-10)) in milli-units, p in 1/ProbScale
LogClipped(p) ==
    IF p <= 0 THEN LnFloor ELSE IF p >= ProbScale THEN 0 ELSE LnQ(p, ProbScale)

\* compute_log_likelihood: log p for a response equal to 1.0, log (1 - p)
\* for every other cell
compute_log_likelihood(data, difficulty, discrimination, guessing, theta) ==
    LET cells == PersonsOf(data) \X ItemsOf(data)
        p == Array([c \in cells |->
                compute_probability(theta[c[1]], difficulty[c[2]],
                                    discrimination[c[2]], guessing[c[2]])])
    IN  SumOver(Array([c \in cells |->
                    IF data[c[1]][c[2]] = <<1>> THEN LogClipped(p[c])
                    ELSE LogClipped(ProbScale - p[c])]), cells)

\* a parameter count of two per item whatever the model type
NParamsAsTwoPl(model_type, n_items) == 2 * n_items

\* n_params of fit_model: n_items, 2 * n_items for 2PL, 3 * n_items for 3PL
DichotomousNParams(model_type, n_items) ==
    IF model_type = "2PL" THEN 2 * n_items
    ELSE IF model_type = "3PL" THEN 3 * n_items
    ELSE n_items

\* a dict lookup d.get(key) for a dict modelled as a record
Get(d, key) == IF key \in DOMAIN d THEN d[key] ELSE None

\* the locals of a call at entry.  estimator, bootstrap and ability describe
\* what the external girth functions do on this call: the *_mml estimator
\* and standard_errors_bootstrap return a dict or raise, ability_eap
\* returns the thetas.
DichCall(data, model_type, estimator, bootstrap, ability) ==
    [pc |-> "start", data |-> data, model_type |-> model_type,
     estimator |-> estimator, bootstrap |-> bootstrap, ability |-> ability,
     difficulty |-> << >>, discrimination |-> << >>, guessing |-> << >>,
     se_difficulty |-> None, se_discrimination |-> None, se_guessing |-> None,
     error |-> None, result |-> None]

\* np.ones(n_items) and np.zeros(n_items)
Ones(n) == Array([j \in 1..n |-> MilliScale])
Zeros(n) == Array([j \in 1..n |-> 0])

\* lines 64-68, 78-82, 93-99: the estimator of the model type is called; an
\* unsupported model type raises ValueError, an exception of the estimator
\* propagates
DichEstimated(c) ==
    IF c.model_type \notin {"1PL", "2PL", "3PL"}
    THEN [c EXCEPT !.pc = "raised", !.error = <<"ValueError", "Unsupported model type">>]
    ELSE IF c.estimator.kind = "raises"
    THEN [c EXCEPT !.pc = "raised", !.error = <<"estimator error">>]
    ELSE LET estimates == c.estimator.estimates
             n_items == NItemsOf(c.data)
         IN  [c EXCEPT
                !.pc = IF c.model_type = "3PL" THEN "abilities" ELSE "bootstrap",
                !.difficulty = estimates["Difficulty"],
                !.discrimination = IF c.model_type = "1PL" THEN Ones(n_items)
                                   ELSE estimates["Discrimination"],
                !.guessing = IF c.model_type = "3PL" /\ "Guessing" \in DOMAIN estimates
                             THEN estimates["Guessing"]
                             ELSE Zeros(n_items)]

DichEstimate ==
    /\ dich.pc = "start"
    /\ dich' = DichEstimated(dich)
    /\ UNCHANGED <<fits, sigalrm_handler, alarm, killed, task, shape, post>>

\* a bootstrap whose exception is not caught
DichBootstrappedUncaught(c) ==
    IF c.bootstrap.kind = "raises"
    THEN [c EXCEPT !.pc = "raised", !.error = <<"bootstrap error">>]
    ELSE LET se_estimates == IF "Standard Errors" \in DOMAIN c.bootstrap.result
                             THEN c.bootstrap.result["Standard Errors"]
                             ELSE [x \in {} |-> None]
         IN  [c EXCEPT !.pc = "abilities",
                       !.se_difficulty = Get(se_estimates, "Difficulty"),
                       !.se_discrimination =
                            IF c.model_type = "2PL"
                            THEN Get(se_estimates, "Discrimination") ELSE None]

\* lines 69-77 and 83-92: standard_errors_bootstrap inside try / except
\* Exception: pass
DichBootstrapped(c) ==
    IF c.bootstrap.kind = "raises"
    THEN [c EXCEPT !.pc = "abilities"]
    ELSE LET se_estimates == IF "Standard Errors" \in DOMAIN c.bootstrap.result
                             THEN c.bootstrap.result["Standard Errors"]
                             ELSE [x \in {} |-> None]
         IN  [c EXCEPT !.pc = "abilities",
                       !.se_difficulty = Get(se_estimates, "Difficulty"),
                       !.se_discrimination =
                            IF c.model_type = "2PL"
                            THEN Get(se_estimates, "Discrimination") ELSE None]

DichBootstrap ==
    /\ dich.pc = "bootstrap"
    /\ dich' = DichBootstrapped(dich)
    /\ UNCHANGED <<fits, sigalrm_handler, alarm, killed, task, shape, post>>

\* lines 101-145: abilities, log-likelihood, parameter count, AIC, BIC and
\* the result object
AnalysisResult(c) ==
    LET theta == c.ability
        n_items == NItemsOf(c.data)
        n_persons == NPersonsOf(c.data)
        log_likelihood == compute_log_likelihood(c.data, c.difficulty, c.discrimination,
                                                 c.guessing, theta)
        n_params == DichotomousNParams(c.model_type, n_items)
    IN  [model_type |-> c.model_type,
         item_parameters |->
            [difficulty |-> c.difficulty, discrimination |-> c.discrimination,
             guessing |-> c.guessing, se_difficulty |-> c.se_difficulty,
             se_discrimination |-> c.se_discrimination, se_guessing |-> c.se_guessing],
         abilities |-> [theta |-> theta, se_theta |-> None],
         model_fit |->
            [log_likelihood |-> log_likelihood,
             aic |-> Aic(n_params, log_likelihood),
             bic |-> Bic(n_params, n_persons, log_likelihood),
             n_parameters |-> n_params, n_items |-> n_items, n_persons |-> n_persons],
         converged |-> TRUE]

DichFinish ==
    /\ dich.pc = "abilities"
    /\ dich' = [dich EXCEPT !.pc = "done", !.result = AnalysisResult(dich)]
    /\ UNCHANGED <<fits, sigalrm_handler, alarm, killed, task, shape, post>>

\* fit_model as a function of what the girth calls do on the call
fit_model(c) ==
    LET estimated == DichEstimated(c)
        bootstrapped == IF estimated.pc = "bootstrap" THEN DichBootstrapped(estimated)
                        ELSE estimated
    IN  IF bootstrapped.pc = "raised" THEN bootstrapped
        ELSE [bootstrapped EXCEPT !.pc = "done", !.result = AnalysisResult(bootstrapped)]

(***************************************************************************)
(* Inputs                                                                  *)
(***************************************************************************)
\* raw response codes are 1..MaxRaw; at most MaxMissing cells are missing
MaxRaw == 3
MaxMissing == 1

Cells == {NaNCell} \cup {<<v>> : v \in 1..MaxRaw}

\* the response matrices of two persons by two items
Matrices ==
    {m \in [1..2 -> [1..2 -> Cells]] :
        Cardinality({c \in (1..2) \X (1..2) : IsNaN(m[c[1]][c[2]])}) <= MaxMissing}

\* ModelType, and the model types each engine function supports
ModelTypes == {"1PL", "2PL", "3PL", "RSM", "PCM"}
PolytomousTypes == {"RSM", "PCM"}
DichotomousTypes == {"1PL", "2PL", "3PL"}

\* the (use_mml, estimation_mode) arguments examined: the default, the
\* legacy flag, and the two explicit modes
CallModes == {<<FALSE, "auto">>, <<TRUE, "auto">>, <<FALSE, "mml">>, <<FALSE, "jmle">>}

\* what girth.pcm_mml may return for n_items items with n_categories
\* categories and n_persons persons: step difficulties and abilities
GirthEstimates(n_items, n_persons, n_categories) ==
    {[kind |-> "returns",
      Difficulty |-> [j \in 1..n_items |->
                        [k \in 1..(n_categories - 1) |->
                            400 * k - 200 * n_categories + 300 * (j - 1) * v]],
      Ability |-> [i \in 1..n_persons |-> 700 * (i - 1) * v - 350 * v]] : v \in 0..1}

\* the behaviours of the external optimizer on a matrix (with a single
\* category there are no steps to estimate)
OptimizerBehaviours(data) ==
    LET n_categories == Cardinality(UniqueVals(data))
    IN  {[kind |-> "raises"], [kind |-> "hangs"]}
        \cup (IF n_categories > 1
              THEN GirthEstimates(NItemsOf(data), NPersonsOf(data), n_categories)
              ELSE {})

\* the calls with the given matrices, model types and mode arguments; the
\* thread and the optimizer only matter to a call that takes the MML branch
Calls(matrices, model_types, modes) ==
    UNION {
        IF EffectiveMode(a[1], a[2]) = "mml"
        THEN {Call(m, t, a[1], a[2], "main", o) : o \in OptimizerBehaviours(m)}
             \cup {Call(m, t, a[1], a[2], "worker", [kind |-> "unused"])}
        ELSE {Call(m, t, a[1], a[2], "main", [kind |-> "unused"])}
        : m \in matrices, t \in model_types, a \in modes}

\* the SIGALRM handlers the process may have when a call starts (the
\* handler only matters to a call that installs its own)
InitialHandlers(c) ==
    IF c.thread = "main" /\ EffectiveMode(c.use_mml, c.estimation_mode) = "mml"
    THEN {DefaultHandler, AppHandler}
    ELSE {DefaultHandler}

(***************************************************************************)
(* Spec: one call of fit_polytomous_model in a process                     *)
(***************************************************************************)
Init ==
    /\ \E c \in Calls(Matrices, PolytomousTypes, CallModes)
                 \cup Calls(Matrices, {"1PL"}, {<<FALSE, "auto">>}) :
          /\ fits = [f \in {1} |-> c]
          /\ sigalrm_handler \in InitialHandlers(c)
    /\ alarm = NoAlarm
    /\ killed = FALSE
    /\ dich = Idle
    /\ task = Idle
    /\ shape = Idle
    /\ post = Idle

Next ==
    \/ \E f \in DOMAIN fits : Remap(f)
    \/ \E f \in DOMAIN fits : EstimateAuto(f)
    \/ \E f \in DOMAIN fits : JmleStart(f)
    \/ \E f \in DOMAIN fits : JmleIterate(f)
    \/ \E f \in DOMAIN fits : MmlSetup(f)
    \/ \E f \in DOMAIN fits : OptimizerReturns(f)
    \/ \E f \in DOMAIN fits : OptimizerRaises(f)
    \/ AlarmFires
    \/ \E f \in DOMAIN fits : Finish(f)

Spec == Init /\ [][Next]_vars

(***************************************************************************)
(* Properties of one call of fit_polytomous_model (specification Spec)     *)
(***************************************************************************)
\* the result of an AUTO-mode fit of the matrix with the model type
AutoFit(data, model_type) ==
    PolytomousAnalysisResult(
        WithFallback(Remapped(Call(data, model_type, FALSE, "auto", "main",
                                   [kind |-> "unused"])), TRUE))

\* C1: in MML mode, when the external optimizer raises or times out, the
\* call raises nothing to its caller and the process survives; the result
\* it returns reports converged = false and carries the difficulties,
\* thresholds and thetas of an AUTO-mode fit of the same matrix and model.
C1_MmlFailureFallsBackToAuto ==
    \A f \in DOMAIN fits :
        LET c == fits[f] IN
        c.optimizer.kind \in {"raises", "hangs"} =>
            /\ ~killed
            /\ c.pc = "raised" => Cardinality(UniqueVals(c.data)) = 0
            /\ c.pc = "done" =>
                   LET auto == AutoFit(c.data, c.model_type) IN
                   /\ c.result.converged = FALSE
                   /\ c.result.difficulty = auto.difficulty
                   /\ c.result.thresholds = auto.thresholds
                   /\ c.result.theta = auto.theta

\* a call in MML mode whose optimizer raised has returned its result
C1_Witness ==
    \E f \in DOMAIN fits :
        /\ fits[f].pc = "done"
        /\ fits[f].effective_mode = "mml"
        /\ fits[f].optimizer.kind = "raises"
        /\ fits[f].n_categories = 3
        /\ fits[f].result.converged = FALSE

\* C3: the JMLE loop runs at most max_iter = 50 iterations; it goes on only
\* after an iteration whose largest absolute difficulty change is not below
\* 0.005, and ends at the first iteration that is below it with converged =
\* true; otherwise it ends after exactly 50 iterations with converged = false.
C3_JmleStopsAtFirstSmallChange ==
    \A f \in DOMAIN fits :
        LET c == fits[f] IN
        c.estimation_mode = "jmle" =>
            /\ c.iteration <= MaxIter
            /\ (c.iteration > 0 /\ c.n_categories > 1) =>
                   (c.below <=> DiffChange(c.difficulty, c.old_difficulty)
                                    < ConvergenceThreshold)
            /\ (c.pc = "jmle" /\ c.iteration > 0) => ~c.below
            /\ c.pc = "jmle" => ~c.converged
            /\ c.pc \in {"estimated", "done"} =>
                   /\ c.iteration >= 1
                   /\ c.converged <=> c.below
                   /\ ~c.converged => c.iteration = MaxIter
            /\ c.pc = "done" => c.result.converged = c.converged

\* a JMLE fit has returned converged = true before the iteration budget
\* was used up
C3_Witness ==
    \E f \in DOMAIN fits :
        /\ fits[f].pc = "done"
        /\ fits[f].estimation_mode = "jmle"
        /\ fits[f].result.converged
        /\ fits[f].iteration > 5
        /\ fits[f].iteration < MaxIter

\* C5: a matrix whose non-missing cells take K distinct values is fitted
\* with n_categories = K; the remapping of the values is order-preserving
\* and onto 0..K-1; category_counts sums to n_persons x n_items.
C5_RemapOntoDenseCategories ==
    \A f \in DOMAIN fits :
        LET c == fits[f]
            K == Cardinality(UniqueVals(c.data))
            cells == ValidCells(c.data)
            raw(x) == Val(c.data[x[1]][x[2]])
            cat(x) == Val(c.data_normalized[x[1]][x[2]])
        IN  c.pc \notin {"start", "raised"} =>
                /\ c.n_categories = K
                /\ \A x \in cells, y \in cells : raw(x) < raw(y) <=> cat(x) < cat(y)
                /\ {cat(x) : x \in cells} = 0..(K - 1)
                /\ SumSeq(c.category_counts) = NPersonsOf(c.data) * NItemsOf(c.data)
                /\ c.pc = "done" =>
                       /\ c.result.n_categories = K
                       /\ c.result.model_fit.n_categories = K
                       /\ c.result.category_counts = c.category_counts

\* a fit of a matrix with the sparse codes 1 and 3 and a missing cell has
\* returned
C5_Witness ==
    \E f \in DOMAIN fits :
        /\ fits[f].pc = "done"
        /\ UniqueVals(fits[f].data) = {1, 3}
        /\ \E i \in 1..2, j \in 1..2 : IsNaN(fits[f].data[i][j])
        /\ fits[f].result.n_categories = 2
        /\ fits[f].result.category_counts = <<3, 1>>

(***************************************************************************)
(* SpecLive: one MML-mode call, with the steps of the running process and  *)
(* the expiry of an armed timer taken to happen eventually                 *)
(***************************************************************************)
InitMml ==
    /\ fits = [f \in {1} |-> Idle]
    /\ sigalrm_handler \in {DefaultHandler, AppHandler}
    /\ alarm = NoAlarm
    /\ killed = FALSE
    /\ dich = Idle
    /\ task = Idle
    /\ shape = Idle
    /\ post = Idle

\* the caller invokes fit_polytomous_model(data, model_type,
\* estimation_mode = MML)
Invoke(f) ==
    /\ fits[f].pc = "idle"
    /\ \E c \in Calls(Matrices, PolytomousTypes, {<<FALSE, "mml">>}) :
          fits' = [fits EXCEPT ![f] = c]
    /\ UNCHANGED <<sigalrm_handler, alarm, killed, notPoly>>

NextMml ==
    \/ \E f \in DOMAIN fits : Invoke(f)
    \/ \E f \in DOMAIN fits : Remap(f)
    \/ \E f \in DOMAIN fits : MmlSetup(f)
    \/ \E f \in DOMAIN fits : OptimizerReturns(f)
    \/ \E f \in DOMAIN fits : OptimizerRaises(f)
    \/ AlarmFires
    \/ \E f \in DOMAIN fits : Finish(f)

\* the steps of a call that has been made: the interpreter goes on running
\* the call, the external optimizer does what it does on this matrix, and
\* the kernel delivers SIGALRM when the armed timer expires
Progress ==
    \/ \E f \in DOMAIN fits : MmlSetup(f)
    \/ \E f \in DOMAIN fits : OptimizerReturns(f)
    \/ \E f \in DOMAIN fits : OptimizerRaises(f)
    \/ AlarmFires
    \/ \E f \in DOMAIN fits : Finish(f)

\* the enabling condition of Progress (the guards of its actions)
StepEnabled ==
    \E f \in DOMAIN fits :
        \/ fits[f].pc = "estimate" /\ fits[f].effective_mode = "mml"
        \/ fits[f].pc = "optimizing" /\ fits[f].optimizer.kind \in {"returns", "raises"}
        \/ fits[f].pc = "optimizing" /\ fits[f].optimizer.kind = "hangs"
              /\ alarm.seconds > 0 /\ alarm.armed_by = f /\ ~killed
        \/ fits[f].pc = "estimated" /\ ~killed

\* the first stage of a call that has been made
Remapping == \E f \in DOMAIN fits : Remap(f)

\* weak fairness of the stages of a call: WF_vars(Remapping), and
\* WF_vars(Progress) with ENABLED <<Progress>>_vars written out as StepEnabled
SpecLive ==
    /\ InitMml /\ [][NextMml]_vars
    /\ WF_vars(Remapping)
    /\ ([]<>~StepEnabled \/ []<><<Progress>>_vars)

\* C2: an MML-mode fit that has reached its estimation branch always
\* returns; if the optimizer has not returned when the 60-second alarm
\* expires, the call is cancelled and the result returned is the fallback
\* (converged = false), with no alarm left pending.
C2_MmlFitAlwaysReturns ==
    (fits[1].pc = "estimate") ~>
        (/\ fits[1].pc = "done"
         /\ alarm = NoAlarm
         /\ fits[1].optimizer.kind = "hangs" => ~fits[1].result.converged)

\* a call whose optimizer hung has returned after the alarm
C2_Witness ==
    /\ fits[1].pc = "done"
    /\ fits[1].optimizer.kind = "hangs"
    /\ fits[1].old_handler = AppHandler
    /\ sigalrm_handler = AppHandler
    /\ alarm = NoAlarm
    /\ ~fits[1].result.converged

\* the category matrix with every missing cell left missing
RemapKeepingMissing(data) ==
    LET unique_vals == UniqueVals(data)
    IN  Array([i \in PersonsOf(data) |->
            Array([j \in ItemsOf(data) |->
                IF IsNaN(data[i][j]) THEN NaNCell
                ELSE <<ValToCat(unique_vals, Val(data[i][j]))>>])])

\* C6: a missing cell of the input matrix is skipped: the thetas (where the
\* call estimates them from the responses), the infit/outfit statistics
\* and the log-likelihood of the result equal those computed, for the
\* result's own difficulties and thresholds, from the non-missing cells.
C6_MissingCellsAreSkipped ==
    \A f \in DOMAIN fits :
        LET c == fits[f]
            observed == RemapKeepingMissing(c.data)
        IN  (c.pc = "done" /\ c.n_categories > 1) =>
                /\ c.theta = None =>
                       c.result.theta =
                           _estimate_abilities_polytomous(observed, c.result.difficulty,
                               c.result.thresholds, c.model_type)
                /\ c.result.item_fit =
                       compute_fit_statistics(observed, c.result.difficulty,
                           c.result.thresholds, c.result.theta, c.model_type)
                /\ c.result.model_fit.log_likelihood =
                       compute_polytomous_log_likelihood(observed, c.result.difficulty,
                           c.result.thresholds, c.result.theta, c.model_type)

\* the same statement for the matrices without a missing cell
C6_HoldsWithoutMissingCells ==
    \A f \in DOMAIN fits :
        ValidCells(fits[f].data) = PersonsOf(fits[f].data) \X ItemsOf(fits[f].data)
            => C6_MissingCellsAreSkipped

(***************************************************************************)
(* SpecDich: one call of fit_model in a process                            *)
(***************************************************************************)
\* the binary response matrices of two persons by two items
BinaryMatrices == [1..2 -> [1..2 -> {<<0>>, <<1>>}]]

\* what the girth estimator of a model type may do on n_items items: raise,
\* or return a dict of item estimates (threepl_mml with or without a
\* "Guessing" entry)
EstimatorOutcomes(model_type, n_items) ==
    LET Difficulty(v) == [j \in 1..n_items |-> 600 * j - 900 + 250 * v]
        Discrimination == [j \in 1..n_items |-> 800 + 350 * j]
        Guessing == [j \in 1..n_items |-> 500 + 1000 * j]
    IN  {[kind |-> "raises"]}
        \cup (IF model_type = "1PL"
              THEN {[kind |-> "returns", estimates |-> [Difficulty |-> Difficulty(v)]]
                        : v \in 0..1}
              ELSE IF model_type = "2PL"
              THEN {[kind |-> "returns",
                     estimates |-> [Difficulty |-> Difficulty(v),
                                    Discrimination |-> Discrimination]] : v \in 0..1}
              ELSE {[kind |-> "returns",
                     estimates |-> [Difficulty |-> Difficulty(v),
                                    Discrimination |-> Discrimination]] : v \in 0..1}
                   \cup {[kind |-> "returns",
                          estimates |-> [Difficulty |-> Difficulty(v),
                                         Discrimination |-> Discrimination,
                                         Guessing |-> Guessing]] : v \in 0..1})

\* what standard_errors_bootstrap may do: raise, return a dict without
\* "Standard Errors", or return one whose "Standard Errors" holds any of the
\* two entries
BootstrapOutcomes(n_items) ==
    LET ses == [Difficulty |-> [j \in 1..n_items |-> 150 + 60 * j],
                Discrimination |-> [j \in 1..n_items |-> 90 + 40 * j]]
    IN  {[kind |-> "raises"], [kind |-> "returns", result |-> [x \in {} |-> None]]}
        \cup {[kind |-> "returns",
               result |-> [x \in {"Standard Errors"} |-> [k \in keys |-> ses[k]]]]
                : keys \in SUBSET {"Difficulty", "Discrimination"}}

\* the thetas girth.ability_eap may return for n_persons persons
AbilityOutcomes(n_persons) ==
    {[i \in 1..n_persons |-> 900 * i - 1200 + 300 * v] : v \in 0..1}

\* the calls of fit_model examined; the bootstrap only matters to a 1PL or
\* 2PL call, the estimator to a call with a supported model type
DichCalls ==
    UNION {
        IF t \notin DichotomousTypes
        THEN {DichCall(m, t, [kind |-> "unused"], [kind |-> "unused"], a)
                : a \in AbilityOutcomes(2)}
        ELSE IF t = "3PL"
        THEN {DichCall(m, t, e, [kind |-> "unused"], a)
                : e \in EstimatorOutcomes(t, 2), a \in AbilityOutcomes(2)}
        ELSE {DichCall(m, t, e, b, a)
                : e \in EstimatorOutcomes(t, 2), b \in BootstrapOutcomes(2),
                  a \in AbilityOutcomes(2)}
        : m \in BinaryMatrices, t \in ModelTypes}

InitDich ==
    /\ dich \in DichCalls
    /\ fits = [f \in {1} |-> Idle]
    /\ sigalrm_handler = DefaultHandler
    /\ alarm = NoAlarm
    /\ killed = FALSE
    /\ task = Idle
    /\ shape = Idle
    /\ post = Idle

NextDich == DichEstimate \/ DichBootstrap \/ DichFinish

SpecDich == InitDich /\ [][NextDich]_vars

\* the result of the call whose bootstrap behaves as b instead
ResultWithBootstrap(c, b) ==
    fit_model(DichCall(c.data, c.model_type, c.estimator, b, c.ability)).result

\* C10: when the bootstrap of a 1PL or 2PL fit raises, fit_model does not
\* fail: it returns the item parameters, thetas, model fit and converged
\* flag it returns with any bootstrap that succeeds, and every standard-error
\* field of the result is None (not an array of zeros)
C10_BootstrapFailureLeavesFitIntact ==
    (dich.pc # "idle" /\ dich.model_type \in {"1PL", "2PL"}
        /\ dich.estimator.kind = "returns" /\ dich.bootstrap.kind = "raises")
    => /\ dich.pc # "raised"
       /\ dich.pc = "done" =>
            /\ dich.result.item_parameters.se_difficulty = None
            /\ dich.result.item_parameters.se_discrimination = None
            /\ dich.result.item_parameters.se_guessing = None
            /\ \A b \in {o \in BootstrapOutcomes(2) : o.kind = "returns"} :
                  LET ok == ResultWithBootstrap(dich, b)
                  IN  /\ dich.result.item_parameters.difficulty = ok.item_parameters.difficulty
                      /\ dich.result.item_parameters.discrimination
                            = ok.item_parameters.discrimination
                      /\ dich.result.item_parameters.guessing = ok.item_parameters.guessing
                      /\ dich.result.abilities = ok.abilities
                      /\ dich.result.model_fit = ok.model_fit
                      /\ dich.result.converged = ok.converged

\* a 2PL fit has returned after its bootstrap raised, while the same call
\* with a succeeding bootstrap reports standard errors
C10_Witness ==
    /\ dich.pc = "done" /\ dich.model_type = "2PL"
    /\ dich.bootstrap.kind = "raises"
    /\ dich.result.item_parameters.se_difficulty = None
    /\ \E b \in BootstrapOutcomes(2) :
          /\ b.kind = "returns"
          /\ ResultWithBootstrap(dich, b).item_parameters.se_difficulty # None
          /\ ResultWithBootstrap(dich, b).item_parameters.se_discrimination # None

\* fit_model with a model type outside 1PL / 2PL / 3PL raises ValueError
\* and returns no result
FitModelRejectsUnsupportedType ==
    (dich.pc \notin {"idle", "start"} /\ dich.model_type \notin DichotomousTypes)
    => /\ dich.pc = "raised"
       /\ dich.error[1] = "ValueError"
       /\ dich.result = None

\* C8: a call of either engine function with a model type it does not
\* support never gets past estimation and never returns a result
C8_UnsupportedModelTypeFails ==
    /\ \A f \in DOMAIN fits :
          (fits[f].pc # "idle" /\ fits[f].model_type \notin PolytomousTypes)
          => fits[f].pc \notin {"estimated", "done"}
    /\ (dich.pc # "idle" /\ dich.model_type \notin DichotomousTypes)
          => dich.pc \notin {"bootstrap", "abilities", "done"}

(***************************************************************************)
(* Datasets and analyses: upload_dataset, create_analysis and              *)
(* run_analysis_task (api/v1), validate_response_matrix (utils)            *)
(*   a data frame is a sequence of columns [name, dtype, cells]; name is   *)
(*   "id" for a column name with an id term, "group" for one with a        *)
(*   grouping keyword and "item" otherwise; the cells of an object column  *)
(*   hold string identities.                                               *)
(***************************************************************************)
\* a stored field without a value (SQL NULL, Python None), and with one
Null == << >>
Stored(x) == <<x>>

NRows(df) == IF Len(df) = 0 THEN 0 ELSE Len(df[1].cells)

\* pd.read_csv: a text column is object, a numeric column with a missing
\* value is float64, any other numeric column is int64
ReadFile(columns) ==
    Array([j \in 1..Len(columns) |->
        [name |-> columns[j].name,
         dtype |-> IF columns[j].text THEN "object"
                   ELSE IF \E i \in 1..Len(columns[j].cells) : IsNaN(columns[j].cells[i])
                   THEN "float64" ELSE "int64",
         cells |-> columns[j].cells]])

\* the rows with a value in some column, in order
RECURSIVE KeptRows(_, _)
KeptRows(df, i) ==
    IF i > NRows(df) THEN << >>
    ELSE (IF \E j \in 1..Len(df) : ~IsNaN(df[j].cells[i]) THEN <<i>> ELSE << >>)
         \o KeptRows(df, i + 1)

\* df.dropna(how='all')
DropEmptyRows(df) ==
    LET kept == KeptRows(df, 1)
    IN  Array([j \in 1..Len(df) |->
            [df[j] EXCEPT !.cells = Array([r \in 1..Len(kept) |-> df[j].cells[kept[r]]])]])

\* series.dropna() and series.dropna().unique()
NonMissing(col) == SelectSeq(col.cells, LAMBDA c : ~IsNaN(c))
UniqueOf(col) == {Val(col.cells[i]) : i \in {r \in 1..Len(col.cells) : ~IsNaN(col.cells[r])}}

is_id_column(col) ==
    \/ col.name = "id"
    \/ /\ col.dtype \in {"int64", "float64"}
       /\ Cardinality(UniqueOf(col)) = Len(NonMissing(col))

is_binary_column(col) ==
    IF col.dtype = "object" THEN UniqueOf(col) = {}
    ELSE UniqueOf(col) \subseteq {0, 1}

is_grouping_column(col) ==
    LET n_unique == Cardinality(UniqueOf(col))
    IN  IF n_unique < 2 \/ n_unique > 5 THEN FALSE
        ELSE \/ col.name = "group"
             \/ col.dtype # "object" /\ UniqueOf(col) \subseteq 0..5 /\ n_unique = 2
             \/ col.dtype = "object"

is_ordinal_column(col) ==
    LET unique_values == UniqueOf(col)
        min_val == CHOOSE v \in unique_values : \A w \in unique_values : v <= w
        max_val == CHOOSE v \in unique_values : \A w \in unique_values : v >= w
    IN  /\ col.dtype # "object" \/ unique_values = {}
        /\ Cardinality(unique_values) >= 2
        /\ max_val - min_val + 1 >= 2
        /\ max_val - min_val + 1 <= 10

\* the list a column is appended to (lines 172-182)
ColumnKind(col) ==
    IF is_id_column(col) THEN "id"
    ELSE IF is_grouping_column(col) THEN "grouping"
    ELSE IF is_binary_column(col) THEN "binary"
    ELSE IF is_ordinal_column(col) THEN "ordinal"
    ELSE "other"

\* the indices of the columns satisfying P, in column order
ColumnsWhere(df, P(_)) ==
    SelectSeq(Array([j \in 1..Len(df) |-> j]), LAMBDA j : P(df[j]))

\* df.empty: no column or no row
IsEmptyFrame(df) == Len(df) = 0 \/ NRows(df) = 0

\* validate_response_matrix: the item columns and the error entries (the
\* warnings do not affect is_valid)
validate_response_matrix(df) ==
    IF IsEmptyFrame(df)
    THEN [is_valid |-> FALSE, errors |-> {"empty_data"}, item_columns |-> << >>]
    ELSE LET binary_columns == ColumnsWhere(df, LAMBDA c : ColumnKind(c) = "binary")
             ordinal_columns == ColumnsWhere(df, LAMBDA c : ColumnKind(c) = "ordinal")
             item_columns == IF ordinal_columns # << >>
                             THEN ordinal_columns \o binary_columns
                             ELSE binary_columns
             errors ==
                (IF Len(item_columns) < 2 THEN {"insufficient_items"} ELSE {})
                \cup (IF \E k \in 1..Len(item_columns) :
                            NonMissing(df[item_columns[k]]) = << >>
                      THEN {"all_missing"} ELSE {})
         IN  [is_valid |-> errors = {}, errors |-> errors, item_columns |-> item_columns]

\* no analysis row
NoAnalysis ==
    [status |-> "absent", error_message |-> Null, item_parameters |-> Null,
     ability_estimates |-> Null, model_fit |-> Null]

\* a request: the uploaded file (columns, and whether its name ends in
\* .tsv) and the model type of the analysis asked for
Request(columns, tsv, model_type) ==
    [pc |-> "upload", file |-> columns, tsv |-> tsv, model_type |-> model_type,
     dataset |-> [exists |-> FALSE], response |-> 0,
     analysis |-> NoAnalysis, engine_called |-> FALSE,
     storage |-> "returns", tracking |-> "returns"]

\* a request whose task meets the given behaviour of the object storage
\* (s3_client.get_object "returns" or "raises") and of the experiment
\* tracking (every mlflow call "returns", one "raises_before_fit", or the
\* end of the run "raises_at_exit")
RequestWith(columns, tsv, model_type, storage, tracking) ==
    [Request(columns, tsv, model_type) EXCEPT !.storage = storage,
                                              !.tracking = tracking]

\* upload_dataset (datasets.py:19-99): a file without a column cannot be
\* parsed (HTTP 400); otherwise the all-missing rows are dropped, the frame
\* is validated, stored as CSV, and the dataset row records the outcome
UploadDataset ==
    /\ task.pc = "upload"
    /\ IF Len(task.file) = 0
       THEN task' = [task EXCEPT !.pc = "uploaded", !.response = 400]
       ELSE LET df == DropEmptyRows(ReadFile(task.file))
                validation_result == validate_response_matrix(df)
            IN  task' = [task EXCEPT
                    !.pc = "uploaded",
                    !.response = 201,
                    !.dataset = [exists |-> TRUE, frame |-> df, tsv |-> task.tsv,
                                 validation_status |->
                                    IF validation_result.is_valid THEN "valid"
                                    ELSE "invalid"]]
    /\ UNCHANGED <<fits, sigalrm_handler, alarm, killed, dich, shape, post>>

\* a dataset create_analysis accepts whatever its validation status
AnyDatasetForAnalysis(dataset) == TRUE

\* create_analysis line 327
IsValidForAnalysis(dataset) == dataset.validation_status = "valid"

\* create_analysis (analysis.py:316-360): 404 without the dataset, 400 for
\* a dataset that is not valid, otherwise the analysis row is inserted as
\* pending and run_analysis_task is scheduled
CreateAnalysis ==
    /\ task.pc = "uploaded"
    /\ IF ~task.dataset.exists
       THEN task' = [task EXCEPT !.pc = "responded", !.response = 404]
       ELSE IF ~IsValidForAnalysis(task.dataset)
       THEN task' = [task EXCEPT !.pc = "responded", !.response = 400]
       ELSE task' = [task EXCEPT !.pc = "scheduled", !.response = 201,
                                 !.analysis.status = "pending"]
    /\ UNCHANGED <<fits, sigalrm_handler, alarm, killed, dich, shape, post>>

\* run_analysis_task lines 60-67
TaskStart ==
    /\ task.pc = "scheduled"
    /\ task' = [task EXCEPT !.pc = "running", !.analysis.status = "running"]
    /\ UNCHANGED <<fits, sigalrm_handler, alarm, killed, dich, shape, post>>

\* lines 82-87: the stored file is comma separated and is read with a tab
\* separator when the original file name contains ".tsv": a file of two or
\* more columns then becomes one column of strings
ReadStored(dataset) ==
    IF dataset.tsv /\ Len(dataset.frame) >= 2
    THEN <<[name |-> "item", dtype |-> "object",
            cells |-> Array([r \in 1..NRows(dataset.frame) |-> <<r>>])]>>
    ELSE dataset.frame

\* lines 95-98: two or more distinct values, each an instance of int or
\* float (the elements of a float64 column are, those of an int64 column
\* and strings are not)
OrdinalForTask(col) ==
    /\ Cardinality(UniqueOf(col)) >= 2
    /\ col.dtype = "float64"

\* lines 111-113
BinaryForTask(col) == is_binary_column(col)

\* item_df.values followed by np.nan_to_num(data, nan=0)
NanToNum(df, columns) ==
    Array([i \in 1..NRows(df) |->
        Array([k \in 1..Len(columns) |->
            IF IsNaN(df[columns[k]].cells[i]) THEN <<0>> ELSE df[columns[k]].cells[i]])])

\* an except branch that marks nothing: the status stays as it was
FailedLeftRunning(t, message) == [t EXCEPT !.pc = "finished"]

\* lines 307-312: the except branch and the commit
Failed(t, message) ==
    [t EXCEPT !.pc = "finished", !.analysis.status = "failed",
              !.analysis.error_message = Stored(message)]

\* lines 175-302: the results assigned to the analysis row
WithResults(t, item_parameters, ability_estimates, model_fit) ==
    [t EXCEPT !.engine_called = TRUE,
              !.analysis.item_parameters = Stored(item_parameters),
              !.analysis.ability_estimates = Stored(ability_estimates),
              !.analysis.model_fit = Stored(model_fit)]

\* lines 136 and 304-312: the end of the mlflow run, then status completed and the
\* commit; an exception of the closing run reaches the except branch with
\* the results already assigned
Completed(t) ==
    IF t.tracking = "raises_at_exit" THEN Failed(t, <<"MlflowException">>)
    ELSE [t EXCEPT !.pc = "finished", !.analysis.status = "completed"]

\* lines 70-312: the stored file is fetched and read back, the columns of
\* the model's kind are selected, fewer than two raise ValueError;
\* otherwise the run is opened, the engine called and its result stored;
\* any exception marks the analysis failed with its message
TaskRun ==
    /\ task.pc = "running"
    /\ LET df == ReadStored(task.dataset)
           is_polytomous == task.model_type \in {"RSM", "PCM"}
           columns == IF is_polytomous THEN ColumnsWhere(df, OrdinalForTask)
                      ELSE ColumnsWhere(df, BinaryForTask)
           data == NanToNum(df, columns)
       IN  IF task.storage = "raises"
           THEN task' = Failed(task, <<"ClientError">>)
           ELSE IF Len(columns) < 2
           THEN task' = Failed(task, <<"ValueError", "Need at least 2 columns",
                                       Len(columns)>>)
           ELSE IF task.tracking = "raises_before_fit"
           THEN task' = Failed(task, <<"MlflowException">>)
           ELSE IF is_polytomous
           THEN LET result == AutoFit(data, task.model_type)
                IN  task' = Completed(WithResults(task,
                                [difficulty |-> result.difficulty,
                                 thresholds |-> result.thresholds,
                                 item_fit |-> result.item_fit],
                                result.theta, result.model_fit))
           ELSE \E e \in EstimatorOutcomes(task.model_type, Len(columns)),
                   b \in BootstrapOutcomes(Len(columns)),
                   a \in AbilityOutcomes(NRows(df)) :
                    LET c == fit_model(DichCall(data, task.model_type, e, b, a))
                    IN  IF c.pc = "raised"
                        THEN task' = [Failed(task, c.error) EXCEPT !.engine_called = TRUE]
                        ELSE task' = Completed(WithResults(task,
                                        c.result.item_parameters,
                                        c.result.abilities.theta, c.result.model_fit))
    /\ UNCHANGED <<fits, sigalrm_handler, alarm, killed, dich, shape, post>>

(***************************************************************************)
(* SpecTask: one uploaded file and one analysis request                    *)
(***************************************************************************)
\* the columns examined, of four cells each
FileColumns ==
    {[name |-> "item", text |-> FALSE, cells |-> <<<<0>>, <<1>>, <<1>>, <<0>>>>],
     [name |-> "item", text |-> FALSE, cells |-> <<<<1>>, <<1>>, <<1>>, <<1>>>>],
     [name |-> "item", text |-> FALSE, cells |-> <<<<1>>, <<2>>, <<3>>, <<3>>>>],
     [name |-> "item", text |-> FALSE, cells |-> <<NaNCell, <<6>>, <<7>>, <<7>>>>],
     [name |-> "item", text |-> FALSE, cells |-> <<NaNCell, NaNCell, NaNCell, NaNCell>>],
     [name |-> "id", text |-> FALSE, cells |-> <<<<4>>, <<4>>, <<5>>, <<5>>>>],
     [name |-> "item", text |-> TRUE, cells |-> <<<<1>>, <<2>>, <<1>>, <<2>>>>]}

MaxColumns == 3

Files == UNION {[1..n -> FileColumns] : n \in 0..MaxColumns}

InitTask ==
    /\ \E columns \in Files, tsv \in BOOLEAN, model_type \in ModelTypes :
          task = Request(columns, tsv, model_type)
    /\ fits = [f \in {1} |-> Idle]
    /\ sigalrm_handler = DefaultHandler
    /\ alarm = NoAlarm
    /\ killed = FALSE
    /\ dich = Idle
    /\ shape = Idle
    /\ post = Idle

NextTask == UploadDataset \/ CreateAnalysis \/ TaskStart \/ TaskRun

SpecTask == InitTask /\ [][NextTask]_vars

\* the uploaded matrix is empty or validation finds fewer than two item
\* columns in it
InsufficientDataset ==
    /\ task.pc # "idle"
    /\ task.dataset.exists
    /\ \/ IsEmptyFrame(task.dataset.frame)
       \/ Len(validate_response_matrix(task.dataset.frame).item_columns) < 2

\* the frame run_analysis_task reads has fewer than two columns of the
\* kind the requested model takes
InsufficientForModel ==
    /\ task.pc # "idle"
    /\ task.dataset.exists
    /\ LET df == ReadStored(task.dataset)
       IN  Len(IF task.model_type \in {"RSM", "PCM"}
               THEN ColumnsWhere(df, OrdinalForTask)
               ELSE ColumnsWhere(df, BinaryForTask)) < 2

NothingFitted ==
    /\ ~task.engine_called
    /\ task.analysis.item_parameters = Null
    /\ task.analysis.ability_estimates = Null
    /\ task.analysis.model_fit = Null

\* C9 as stated: every request on an empty matrix or on one with fewer than
\* two item columns ends with the analysis recorded as failed with the
\* error message, the engine not called and nothing stored
C9_InsufficientMatrixRecordedAsFailed ==
    (task.pc \in {"responded", "finished"}
        /\ (InsufficientDataset \/ InsufficientForModel))
    => /\ task.analysis.status = "failed"
       /\ task.analysis.error_message # Null
       /\ NothingFitted

\* C9 (amended): an empty matrix, or one in which validation finds fewer
\* than two item columns, makes the dataset invalid, and create_analysis
\* answers HTTP 400 without recording an analysis; a matrix with fewer than
\* two columns of the requested model's kind ends run_analysis_task with
\* the analysis recorded as failed with the ValueError message.  In both
\* cases the engine is not called and no item parameters, abilities or
\* model fit are stored.
C9_InsufficientMatrixIsNeverFitted ==
    /\ InsufficientDataset =>
          /\ task.dataset.validation_status = "invalid"
          /\ task.pc \in {"uploaded", "responded"}
          /\ task.pc = "responded" => task.response = 400
          /\ task.analysis = NoAnalysis
          /\ NothingFitted
    /\ (InsufficientForModel /\ task.pc = "finished") =>
          /\ task.analysis.status = "failed"
          /\ task.analysis.error_message # Null
          /\ task.analysis.error_message[1][1] = "ValueError"
          /\ NothingFitted

\* run_analysis_task has ended on a valid dataset that holds a single
\* binary column, with the analysis failed and nothing stored
C9_Witness ==
    /\ task.pc = "finished"
    /\ task.dataset.validation_status = "valid"
    /\ task.model_type = "2PL"
    /\ ~task.dataset.tsv
    /\ InsufficientForModel
    /\ task.analysis.status = "failed"
    /\ NothingFitted

(***************************************************************************)
(* SpecInfo: the parameter count, AIC and BIC every model type reports     *)
(* for one matrix shape, category count and log-likelihood                 *)
(***************************************************************************)
\* n_params, aic and bic as fit_model (irt_engine.py:105-112) and
\* fit_polytomous_model (polytomous_engine.py:202-209) report them
ReportedFit(model_type, n_items, n_persons, n_categories, log_likelihood) ==
    LET n_params == IF model_type \in {"1PL", "2PL", "3PL"}
                    THEN DichotomousNParams(model_type, n_items)
                    ELSE PolytomousNParams(model_type, n_items, n_categories)
    IN  [n_parameters |-> n_params,
         aic |-> Aic(n_params, log_likelihood),
         bic |-> Bic(n_params, n_persons, log_likelihood)]

\* a matrix has at least MinItems item columns
MinItems == 2
MaxItems == 4
MaxPersons == 4
MaxCategories == 4

\* log-likelihoods in milli-units
LogLikelihoods == {0 - 5000, 0 - 1903, 0}

InitInfo ==
    /\ \E n_items \in MinItems..MaxItems, n_persons \in 1..MaxPersons,
          n_categories \in 1..MaxCategories, log_likelihood \in LogLikelihoods :
          shape = [pc |-> "shape", n_items |-> n_items, n_persons |-> n_persons,
                   n_categories |-> n_categories, log_likelihood |-> log_likelihood,
                   reported |-> {}, model_fit |-> [t \in ModelTypes |-> Null]]
    /\ fits = [f \in {1} |-> Idle]
    /\ sigalrm_handler = DefaultHandler
    /\ alarm = NoAlarm
    /\ killed = FALSE
    /\ dich = Idle
    /\ task = Idle
    /\ post = Idle

\* a fit of the model type on the shape reports its model_fit
Report(model_type) ==
    /\ shape.pc = "shape"
    /\ model_type \notin shape.reported
    /\ shape' = [shape EXCEPT
            !.reported = @ \cup {model_type},
            !.model_fit[model_type] =
                Stored(ReportedFit(model_type, shape.n_items, shape.n_persons,
                                   shape.n_categories, shape.log_likelihood))]
    /\ UNCHANGED <<fits, sigalrm_handler, alarm, killed, dich, task, post>>

ReportDichotomous == \E model_type \in DichotomousTypes : Report(model_type)
ReportPolytomous == \E model_type \in PolytomousTypes : Report(model_type)

NextInfo == ReportDichotomous \/ ReportPolytomous

SpecInfo == InitInfo /\ [][NextInfo]_vars

\* the steps to the more complex model
ComplexitySteps == {<<"1PL", "2PL">>, <<"2PL", "3PL">>, <<"RSM", "PCM">>}

\* both models of the step have reported
BothReported(step) == shape.pc = "shape" /\ {step[1], step[2]} \subseteq shape.reported

\* C7 as stated: on every shape and category count, each step to the more
\* complex model strictly increases n_parameters, AIC and BIC
C7_ComplexityStrictlyIncreasesAicBic ==
    \A step \in ComplexitySteps :
        BothReported(step) =>
            LET simple == shape.model_fit[step[1]][1]
                complex == shape.model_fit[step[2]][1]
            IN  /\ simple.n_parameters < complex.n_parameters
                /\ simple.aic < complex.aic
                /\ simple.bic < complex.bic

\* C7 (amended): on a matrix of at least two items, 1PL -> 2PL -> 3PL
\* strictly increases n_parameters and AIC; RSM -> PCM does so when there
\* are at least two categories and reports the same n_parameters, AIC and BIC with a single
\* category; BIC strictly increases with n_parameters when there are at
\* least two persons and is the same for every model on a one-person matrix
C7_ComplexityIncreasesOutsideDegenerateShapes ==
    \A step \in ComplexitySteps :
        BothReported(step) =>
            LET simple == shape.model_fit[step[1]][1]
                complex == shape.model_fit[step[2]][1]
                grows == step[1] # "RSM" \/ shape.n_categories >= 2
            IN  /\ grows => /\ simple.n_parameters < complex.n_parameters
                            /\ simple.aic < complex.aic
                            /\ shape.n_persons >= 2 => simple.bic < complex.bic
                /\ ~grows => simple = complex
                /\ shape.n_persons = 1 => simple.bic = complex.bic

\* RSM and PCM have reported on a matrix of three items, two persons and
\* three categories, PCM with more parameters and larger AIC and BIC
C7_Witness ==
    /\ BothReported(<<"RSM", "PCM">>)
    /\ shape.n_items = 3 /\ shape.n_persons = 2 /\ shape.n_categories = 3
    /\ shape.model_fit["RSM"][1].n_parameters = 5
    /\ shape.model_fit["PCM"][1].n_parameters = 9
    /\ shape.model_fit["RSM"][1].aic < shape.model_fit["PCM"][1].aic
    /\ shape.model_fit["RSM"][1].bic < shape.model_fit["PCM"][1].bic

(***************************************************************************)
(* SpecConc: two fits running concurrently in one process                  *)
(*   fit 1 runs in the main thread or in a worker thread, the second fit   *)
(*   (a call of fit_polytomous_model or of fit_model) in a worker thread;  *)
(*   the steps of the two interleave freely, the SIGALRM handler and the   *)
(*   alarm are the process's.                                              *)
(***************************************************************************)
\* the matrices of the first and of the second fit
ConcMatrix1 == <<<<NaNCell, <<2>>>>, <<<<1>>, <<3>>>>>>
ConcMatrix2 == <<<<<<1>>, <<2>>>>, <<<<2>>, <<1>>>>>>

\* the calls of fit_polytomous_model on a matrix in a thread, in every
\* model type and mode, with every behaviour of the optimizer
ConcCalls(data, thread) ==
    UNION {
        IF EffectiveMode(a[1], a[2]) = "mml"
        THEN {Call(data, t, a[1], a[2], thread, o) : o \in OptimizerBehaviours(data)}
        ELSE {Call(data, t, a[1], a[2], thread, [kind |-> "unused"])}
        : t \in PolytomousTypes, a \in CallModes}

\* the calls of fit_model run as the second fit
ConcDichCalls ==
    {c \in DichCalls : c.data = <<<<<<0>>, <<1>>>>, <<<<1>>, <<1>>>>>>
                       /\ c.ability = <<0, 900>>}

\* the call a fit was started with
CallOf(c) == Call(c.data, c.model_type, c.use_mml, c.estimation_mode, c.thread, c.optimizer)
DichCallOf(c) == DichCall(c.data, c.model_type, c.estimator, c.bootstrap, c.ability)

\* fit_polytomous_model run alone in its thread: the stages of the call in
\* sequence; a hanging optimizer is ended by the call's own alarm
SoloFit(c) ==
    LET remapped == Remapped(c)
        estimated ==
            IF remapped.effective_mode = "jmle" THEN JmleLoop(JmleStarted(remapped))
            ELSE IF remapped.effective_mode = "mml"
            THEN IF CanSetHandler(c.thread) /\ c.optimizer.kind = "returns"
                 THEN MmlReturned(remapped)
                 ELSE WithFallback(remapped, FALSE)
            ELSE WithFallback(remapped, TRUE)
    IN  IF remapped.pc = "raised" THEN remapped
        ELSE [estimated EXCEPT !.pc = "done", !.result = PolytomousAnalysisResult(estimated)]

\* the result of every call examined, run alone
SoloResults ==
    Array([c \in ConcCalls(ConcMatrix1, "main") \cup ConcCalls(ConcMatrix1, "worker")
                 \cup ConcCalls(ConcMatrix2, "worker") |-> SoloFit(c)])

InitConc ==
    /\ \E c1 \in ConcCalls(ConcMatrix1, "main") \cup ConcCalls(ConcMatrix1, "worker") :
          \/ /\ \E c2 \in ConcCalls(ConcMatrix2, "worker") : fits = <<c1, c2>>
             /\ dich = Idle
          \/ /\ fits = <<c1, Idle>>
             /\ dich \in ConcDichCalls
    /\ sigalrm_handler \in {DefaultHandler, AppHandler}
    /\ alarm = NoAlarm
    /\ killed = FALSE
    /\ task = Idle
    /\ shape = Idle
    /\ post = Idle

NextConc ==
    \/ \E f \in DOMAIN fits : Remap(f)
    \/ \E f \in DOMAIN fits : EstimateAuto(f)
    \/ \E f \in DOMAIN fits : JmleStart(f)
    \/ \E f \in DOMAIN fits : JmleIterate(f)
    \/ \E f \in DOMAIN fits : MmlSetup(f)
    \/ \E f \in DOMAIN fits : OptimizerReturns(f)
    \/ \E f \in DOMAIN fits : OptimizerRaises(f)
    \/ AlarmFires
    \/ \E f \in DOMAIN fits : Finish(f)
    \/ DichEstimate
    \/ DichBootstrap
    \/ DichFinish

SpecConc == InitConc /\ [][NextConc]_vars

InitFit ==
    /\ \/ /\ \E c \in Calls(Matrices, PolytomousTypes, CallModes) :
                /\ fits = [f \in {1} |-> c]
                /\ sigalrm_handler \in InitialHandlers(c)
          /\ dich = Idle
       \/ /\ fits = [f \in {1} |-> Idle]
          /\ sigalrm_handler = DefaultHandler
          /\ dich \in DichCalls
    /\ alarm = NoAlarm
    /\ killed = FALSE
    /\ task = Idle
    /\ shape = Idle
    /\ post = Idle

NextFit ==
    \/ \E f \in DOMAIN fits : Remap(f)
    \/ \E f \in DOMAIN fits : EstimateAuto(f)
    \/ \E f \in DOMAIN fits : JmleStart(f)
    \/ \E f \in DOMAIN fits : JmleIterate(f)
    \/ \E f \in DOMAIN fits : MmlSetup(f)
    \/ \E f \in DOMAIN fits : OptimizerReturns(f)
    \/ \E f \in DOMAIN fits : OptimizerRaises(f)
    \/ AlarmFires
    \/ \E f \in DOMAIN fits : Finish(f)
    \/ DichEstimate
    \/ DichBootstrap
    \/ DichFinish

SpecFit == InitFit /\ [][NextFit]_vars

\* the call asked for AUTO mode: estimation_mode = AUTO without the legacy flag
AskedAuto(c) == c.estimation_mode = "auto" /\ ~c.use_mml

\* C11: a polytomous fit in AUTO mode that returns reports converged = true;
\* a 1PL or 2PL fit that returns reports converged = true; a dichotomous
\* fit that reports converged = false is a 3PL fit
C11_DefaultFitsReportConverged ==
    /\ \A f \in DOMAIN fits :
          (fits[f].pc = "done" /\ AskedAuto(fits[f])) => fits[f].result.converged = TRUE
    /\ dich.pc = "done" =>
          /\ dich.model_type \in {"1PL", "2PL"} => dich.result.converged = TRUE
          /\ dich.result.converged = FALSE => dich.model_type = "3PL"

\* an AUTO-mode fit of a three-category matrix has returned, converged
C11_Witness ==
    \E f \in DOMAIN fits :
        /\ fits[f].pc = "done"
        /\ AskedAuto(fits[f])
        /\ fits[f].effective_mode = "auto"
        /\ fits[f].n_categories = 3
        /\ fits[f].result.converged = TRUE

(***************************************************************************)
(* SpecSeq: three fits one after the other in one process                  *)
(*   an AUTO-mode fit, then a fit of any mode on any matrix in any thread, *)
(*   then the first call again with the same arguments                     *)
(***************************************************************************)
\* a third matrix for the fit in between
SeqMatrix3 == <<<<<<3>>, <<1>>>>, <<<<1>>, NaNCell>>>>

\* the AUTO-mode calls repeated, and the calls run in between
SeqAutoCalls ==
    {Call(m, t, FALSE, "auto", "main", [kind |-> "unused"])
        : m \in {ConcMatrix1, ConcMatrix2}, t \in PolytomousTypes}
SeqOtherCalls ==
    UNION {ConcCalls(m, th) : m \in {ConcMatrix1, ConcMatrix2, SeqMatrix3},
                              th \in {"main", "worker"}}

InitSeq ==
    /\ \E a \in SeqAutoCalls : fits = <<a, Idle, Idle>>
    /\ sigalrm_handler \in {DefaultHandler, AppHandler}
    /\ alarm = NoAlarm
    /\ killed = FALSE
    /\ dich = Idle
    /\ task = Idle
    /\ shape = Idle
    /\ post = Idle

\* call f is made once the calls before it have ended
Turn(f) == \A g \in 1..(f - 1) : fits[g].pc \in {"done", "raised"}

\* the caller makes the next call: any call as the second, the arguments of
\* the first call again as the third
SeqInvoke(f) ==
    /\ f > 1
    /\ fits[f].pc = "idle"
    /\ Turn(f)
    /\ \E c \in (IF f = 2 THEN SeqOtherCalls ELSE {CallOf(fits[1])}) :
          fits' = [fits EXCEPT ![f] = c]
    /\ UNCHANGED <<sigalrm_handler, alarm, killed, notPoly>>

NextSeq ==
    \/ \E f \in DOMAIN fits : SeqInvoke(f)
    \/ \E f \in DOMAIN fits : Remap(f)
    \/ \E f \in DOMAIN fits : EstimateAuto(f)
    \/ \E f \in DOMAIN fits : JmleStart(f)
    \/ \E f \in DOMAIN fits : JmleIterate(f)
    \/ \E f \in DOMAIN fits : MmlSetup(f)
    \/ \E f \in DOMAIN fits : OptimizerReturns(f)
    \/ \E f \in DOMAIN fits : OptimizerRaises(f)
    \/ AlarmFires
    \/ \E f \in DOMAIN fits : Finish(f)

SpecSeq == InitSeq /\ [][NextSeq]_vars

Transpose(data) ==
    Array([j \in ItemsOf(data) |-> Array([i \in PersonsOf(data) |-> data[i][j]])])

\* binary matrices of n_persons rows and n_items columns: all 0, all 1 and
\* the two chequerboards
ShapedMatrices(n_persons, n_items) ==
    {[i \in 1..n_persons |-> [j \in 1..n_items |-> <<v>>]] : v \in 0..1}
    \cup {[i \in 1..n_persons |-> [j \in 1..n_items |-> <<(i + j + v) % 2>>]] : v \in 0..1}

\* the calls of fit_model on a matrix: girth's estimator returns one entry
\* per row of the matrix it is given and ability_eap one theta per column
ShapedCalls(data, model_type) ==
    LET data_for_girth == Transpose(data)
        rows == Len(data_for_girth)
        columns == Len(data_for_girth[1])
    IN  {DichCall(data, model_type, e, b, a)
            : e \in EstimatorOutcomes(model_type, rows),
              b \in IF model_type = "3PL" THEN {[kind |-> "unused"]}
                    ELSE BootstrapOutcomes(rows),
              a \in AbilityOutcomes(columns)}

InitDichShapes ==
    /\ \E n_persons \in 1..MaxPersons, n_items \in MinItems..MaxItems :
          \E data \in ShapedMatrices(n_persons, n_items), t \in DichotomousTypes :
              dich \in ShapedCalls(data, t)
    /\ fits = [f \in {1} |-> Idle]
    /\ sigalrm_handler = DefaultHandler
    /\ alarm = NoAlarm
    /\ killed = FALSE
    /\ task = Idle
    /\ shape = Idle
    /\ post = Idle

NextDichShapes ==
    \/ DichEstimate
    \/ DichBootstrap
    \/ DichFinish

SpecDichShapes == InitDichShapes /\ [][NextDichShapes]_vars

\* C13: a 1PL fit that returns gives n_items difficulties, discrimination
\* 1.0 and guessing 0.0 for every item, n_persons thetas, and a model_fit
\* whose n_parameters and n_items are the number of columns of the matrix
\* and whose n_persons is its number of rows
C13_OnePlResultShape ==
    (dich.pc = "done" /\ dich.model_type = "1PL") =>
        LET r == dich.result
            n_persons == Len(dich.data)
            n_items == Len(dich.data[1])
        IN  /\ Len(r.item_parameters.difficulty) = n_items
            /\ Len(r.item_parameters.discrimination) = n_items
            /\ \A j \in 1..n_items : r.item_parameters.discrimination[j] = MilliScale
            /\ Len(r.item_parameters.guessing) = n_items
            /\ \A j \in 1..n_items : r.item_parameters.guessing[j] = 0
            /\ Len(r.abilities.theta) = n_persons
            /\ r.model_fit.n_parameters = n_items
            /\ r.model_fit.n_items = n_items
            /\ r.model_fit.n_persons = n_persons

\* a 1PL fit of a matrix of four persons and three items has returned
C13_Witness ==
    /\ dich.pc = "done" /\ dich.model_type = "1PL"
    /\ Len(dich.data) = 4 /\ Len(dich.data[1]) = 3
    /\ Len(dich.result.item_parameters.difficulty) = 3
    /\ Len(dich.result.abilities.theta) = 4
    /\ dich.result.model_fit.n_parameters = 3

(***************************************************************************)
(* compute_dif_analysis (polytomous_engine.py)                             *)
(*   a group vector holds one cell per person: <<g>> for the number g,     *)
(*   NaNCell for a missing value, <<"str", l>> for the text label l        *)
(***************************************************************************)
IsLabel(cell) == Len(cell) = 2

\* group_variable.astype(float): a text label that is not a number cannot
\* be converted (ValueError)
CanCastToFloat(group_variable) ==
    \A i \in 1..Len(group_variable) : ~IsLabel(group_variable[i])

\* the distinct non-missing numbers of a numeric group vector
GroupValues(group_variable) ==
    {group_variable[i][1] : i \in {k \in 1..Len(group_variable) :
                                        ~IsNaN(group_variable[k])}}

RECURSIVE Ascending(_)
\* the elements of a finite set of numbers in ascending order
Ascending(S) ==
    IF S = {} THEN << >>
    ELSE LET least == CHOOSE x \in S : \A y \in S : x <= y
         IN  <<least>> \o Ascending(S \ {least})

RECURSIVE AsEncountered(_, _)
\* the distinct non-missing values of a vector in order of first appearance
AsEncountered(group_variable, seen) ==
    IF group_variable = << >> THEN << >>
    ELSE LET cell == Head(group_variable)
         IN  IF IsNaN(cell) \/ cell[1] \in seen
             THEN AsEncountered(Tail(group_variable), seen)
             ELSE <<cell[1]>> \o AsEncountered(Tail(group_variable), seen \cup {cell[1]})

\* unique values taken in the order the persons appear
GroupsAsEncountered(group_variable) == AsEncountered(group_variable, {})

\* np.unique(group_variable[~np.isnan(...)]): the distinct values, sorted
UniqueGroups(group_variable) == Ascending(GroupValues(group_variable))

\* group_variable == group: the persons of the group (NaN equals nothing)
GroupMask(group_variable, group) ==
    {i \in 1..Len(group_variable) :
        ~IsNaN(group_variable[i]) /\ group_variable[i][1] = group}

\* _estimate_item_difficulty_for_group on column j of the rows in mask:
\* mean theta minus the clipped logit of mean response / max response
_estimate_item_difficulty_for_group(data, theta, mask, j) ==
    LET valid == {i \in mask : ~IsNaN(data[i][j])}
        n == Cardinality(valid)
        total == SumOver(Array([i \in valid |-> Val(data[i][j])]), valid)
        max_response == CHOOSE x \in {Val(data[i][j]) : i \in valid} :
                            \A i \in valid : Val(data[i][j]) <= x
        mean_theta == RDiv(SumOver(Array([i \in valid |-> theta[i]]), valid), n)
    IN  IF n = 0 THEN 0
        ELSE IF max_response = 0 THEN mean_theta
        ELSE mean_theta - LogitClipped(total, n * max_response, 1, 99)

\* a class taken from the signed contrast, without the absolute value
ClassifiedBySignedContrast(dif_contrast) ==
    IF dif_contrast < 430 THEN "A"
    ELSE IF dif_contrast < 640 THEN "B"
    ELSE "C"

\* lines 1255-1261: the ETS class of a contrast (in milli-logits)
DifClassification(dif_contrast) ==
    LET abs_contrast == Abs(dif_contrast)
    IN  IF abs_contrast < 430 THEN "A"
        ELSE IF abs_contrast < 640 THEN "B"
        ELSE "C"

\* lines 1223-1272: the DIFResult of item j
DIFResult(c, j) ==
    LET focal_mask == GroupMask(c.group_variable, c.focal_group[1])
        reference_mask == GroupMask(c.group_variable, c.reference_group[1])
        n_focal == Cardinality(focal_mask)
        n_reference == Cardinality(reference_mask)
        focal_difficulty ==
            _estimate_item_difficulty_for_group(c.data, c.theta, focal_mask, j)
        reference_difficulty ==
            _estimate_item_difficulty_for_group(c.data, c.theta, reference_mask, j)
        dif_contrast == focal_difficulty - reference_difficulty
        has_se == n_focal > 0 /\ n_reference > 0
        dif_se == ISqrt(RDiv(MilliScale * MilliScale * (n_focal + n_reference),
                             n_focal * n_reference))
    IN  [item |-> j,
         focal_difficulty |-> focal_difficulty,
         reference_difficulty |-> reference_difficulty,
         dif_contrast |-> dif_contrast,
         dif_se |-> IF has_se THEN Stored(dif_se) ELSE Null,
         dif_t |-> IF has_se /\ dif_se > 0
                   THEN Stored(RDiv(dif_contrast * MilliScale, dif_se)) ELSE Null,
         dif_classification |-> DifClassification(dif_contrast)]

\* the locals of a call at entry; focal_group and reference_group are Null
\* (the default None) or Stored(g)
DifCall(data, group_variable, theta, focal_group, reference_group) ==
    [pc |-> "dif", data |-> data, group_variable |-> group_variable, theta |-> theta,
     focal_group |-> focal_group, reference_group |-> reference_group,
     defaults |-> focal_group = Null /\ reference_group = Null,
     unique_groups |-> << >>, result |-> << >>]

\* lines 1196-1207: the groups; fewer than two distinct values return []
DifGroupsSelected(c) ==
    IF ~CanCastToFloat(c.group_variable) THEN [c EXCEPT !.pc = "raised"]
    ELSE LET unique_groups == UniqueGroups(c.group_variable)
         IN  IF Len(unique_groups) < 2
             THEN [c EXCEPT !.pc = "done", !.unique_groups = unique_groups,
                            !.result = << >>]
             ELSE [c EXCEPT !.pc = "items", !.unique_groups = unique_groups,
                            !.focal_group = IF c.focal_group = Null
                                            THEN Stored(unique_groups[1]) ELSE @,
                            !.reference_group = IF c.reference_group = Null
                                                THEN Stored(unique_groups[2]) ELSE @]

DifSelectGroups ==
    /\ post.pc = "dif"
    /\ post' = DifGroupsSelected(post)
    /\ UNCHANGED <<fits, sigalrm_handler, alarm, killed, dich, task, shape>>

\* lines 1209-1274: one DIFResult per item
DifItems ==
    /\ post.pc = "items"
    /\ post' = [post EXCEPT !.pc = "done",
                            !.result = [j \in ItemsOf(post.data) |-> DIFResult(post, j)]]
    /\ UNCHANGED <<fits, sigalrm_handler, alarm, killed, dich, task, shape>>

(***************************************************************************)
(* SpecDif: one call of compute_dif_analysis                               *)
(***************************************************************************)
\* group values are 1..MaxGroup
MaxGroup == 3

GroupCells == {NaNCell} \cup {<<g>> : g \in 1..MaxGroup}
              \cup {<<"str", l>> : l \in {"F", "M"}}

\* remapped response matrices of three persons by two items
DifMatrices ==
    { <<<<<<0>>, <<2>>>>, <<<<1>>, <<1>>>>, <<<<2>>, NaNCell>>>>,
      <<<<<<0>>, <<1>>>>, <<<<0>>, <<3>>>>, <<<<0>>, <<0>>>>>>,
      <<<<<<1>>, NaNCell>>, <<<<3>>, <<2>>>>, <<<<0>>, <<2>>>>>> }

\* thetas of the three persons
DifThetas == { <<0 - 800, 300, 1500>>, <<0, 0, 0>> }

\* the group arguments: the default None or a group value
GroupArguments == {Null} \cup {Stored(g) : g \in 1..MaxGroup}

InitDif ==
    /\ \E data \in DifMatrices, theta \in DifThetas,
          focal_group \in GroupArguments, reference_group \in GroupArguments :
          \E group_variable \in [1..Len(data) -> GroupCells] :
              post = DifCall(data, group_variable, theta, focal_group, reference_group)
    /\ fits = [f \in {1} |-> Idle]
    /\ sigalrm_handler = DefaultHandler
    /\ alarm = NoAlarm
    /\ killed = FALSE
    /\ dich = Idle
    /\ task = Idle
    /\ shape = Idle

NextDif == DifSelectGroups \/ DifItems

SpecDif == InitDif /\ [][NextDif]_vars

\* the distinct non-missing values of a group vector, numbers or labels
DistinctGroups(group_variable) ==
    {group_variable[i] : i \in {k \in 1..Len(group_variable) :
                                     ~IsNaN(group_variable[k])}}

\* C14: a call whose group vector has fewer than two distinct non-missing
\* values ends by returning the empty list, never by raising
C14_FewGroupsReturnEmpty ==
    (post.pc \in {"done", "raised"}
        /\ Cardinality(DistinctGroups(post.group_variable)) < 2) =>
            (post.pc = "done" /\ post.result = << >>)

\* the same, for group vectors of numbers
C14_HoldsForNumericGroups ==
    CanCastToFloat(post.group_variable) => C14_FewGroupsReturnEmpty

\* C15: in every DIF result the contrast is the focal difficulty minus the
\* reference difficulty, and the class follows from |contrast| alone:
\* negligible (A) below 0.43, moderate (B) from 0.43 to below 0.64, large
\* (C) from 0.64 - exactly one class per item
C15_ContrastAndClassification ==
    (post.pc = "done" /\ Len(post.unique_groups) >= 2) =>
        \A j \in DOMAIN post.result :
            LET r == post.result[j]
                a == IF r.dif_contrast < 0 THEN 0 - r.dif_contrast ELSE r.dif_contrast
            IN  /\ r.dif_contrast = r.focal_difficulty - r.reference_difficulty
                /\ r.dif_classification \in {"A", "B", "C"}
                /\ r.dif_classification = "A" <=> a < 430
                /\ r.dif_classification = "B" <=> (430 <= a /\ a < 640)
                /\ r.dif_classification = "C" <=> a >= 640

\* a call has returned results in which one item is moderate and the other
\* large
C15_Witness ==
    /\ post.pc = "done" /\ Len(post.unique_groups) >= 2
    /\ \E j \in DOMAIN post.result : post.result[j].dif_classification = "B"
    /\ \E j \in DOMAIN post.result :
          /\ post.result[j].dif_classification = "C"
          /\ post.result[j].dif_contrast < 0

\* a call without explicit groups has chosen its groups
DefaultGroupsChosen == post.pc \in {"items", "done"} /\ post.defaults
                       /\ Len(post.unique_groups) >= 2

\* C16 as stated: without explicit groups, the focal group is the first
\* distinct value met in the group vector and the reference group the second
C16_DefaultGroupsAreFirstEncountered ==
    DefaultGroupsChosen =>
        LET met == GroupsAsEncountered(post.group_variable)
        IN  /\ post.focal_group = Stored(met[1])
            /\ post.reference_group = Stored(met[2])

\* C16 (amended): without explicit groups, the focal group is the smallest
\* distinct non-missing value of the group vector and the reference group
\* the second smallest, wherever they stand in the vector
C16_DefaultGroupsAreTwoSmallest ==
    DefaultGroupsChosen =>
        LET values == GroupValues(post.group_variable)
            smallest == CHOOSE x \in values : \A y \in values : x <= y
            rest == values \ {smallest}
            second == CHOOSE x \in rest : \A y \in rest : x <= y
        IN  /\ post.focal_group = Stored(smallest)
            /\ post.reference_group = Stored(second)

\* a call without explicit groups on a vector that meets 3 before 1 has
\* taken 1 as focal and 3 as reference
C16_Witness ==
    /\ DefaultGroupsChosen
    /\ post.pc = "done"
    /\ post.group_variable = <<<<3>>, <<1>>, <<3>>>>
    /\ post.focal_group = Stored(1)
    /\ post.reference_group = Stored(3)

(***************************************************************************)
(* compute_pcar (polytomous_engine.py) and GET /{analysis_id}/pcar         *)
(*   the residual correlation matrix (lines 1083-1115) reaches the result  *)
(*   only through np.linalg.eigh, whose outcome is part of the call: the   *)
(*   eigenvalues in ascending order, or LinAlgError                        *)
(***************************************************************************)
\* the eigenvalues left in the order eigh returned them
LeftAsReturned(s) == s

RECURSIVE SortedDescending(_)
\* eigenvalues[np.argsort(eigenvalues)[::-1]]
SortedDescending(s) ==
    IF s = << >> THEN << >>
    ELSE LET i == CHOOSE k \in DOMAIN s : \A l \in DOMAIN s : s[l] <= s[k]
         IN  <<s[i]>> \o SortedDescending(SubSeq(s, 1, i - 1) \o SubSeq(s, i + 1, Len(s)))

\* s[:n] for n >= 0
Prefix(s, n) == SubSeq(s, 1, Min2(n, Len(s)))

\* a fallback of zeros
FallbackZeros(n_components, n_items) == Zeros(Min2(n_components, n_items))

\* line 1126: np.ones(min(n_components, n_items))
EighFallback(n_components, n_items) == Ones(Min2(n_components, n_items))

\* each eigenvalue as a percentage (in milli-percent) of the total
VarianceExplained(top_eigenvalues, total_variance) ==
    Array([k \in DOMAIN top_eigenvalues |->
              RDiv(top_eigenvalues[k] * 100 * MilliScale, total_variance)])

\* np.cumsum
Cumulative(s) == Array([k \in DOMAIN s |-> SumSeq(SubSeq(s, 1, k))])

\* the locals of a compute_pcar call at entry
PcarCall(n_persons, n_items, n_components, eigh) ==
    [pc |-> "pcar", entry |-> "compute_pcar", n_persons |-> n_persons,
     n_items |-> n_items, n_components |-> n_components, eigh |-> eigh,
     eigenvalues |-> << >>, response |-> 0, result |-> << >>]

\* lines 1079-1127: residuals, correlation matrix, eigh inside try / except
\* LinAlgError, eigenvalues sorted in descending order
PcarDecomposed(c) ==
    [c EXCEPT !.pc = "eigen",
              !.eigenvalues = IF c.eigh.kind = "raises"
                              THEN EighFallback(c.n_components, c.n_items)
                              ELSE SortedDescending(c.eigh.eigenvalues)]

PcarDecompose ==
    /\ post.pc = "pcar"
    /\ post' = PcarDecomposed(post)
    /\ UNCHANGED <<fits, sigalrm_handler, alarm, killed, dich, task, shape>>

\* lines 1129-1162: the PCARResult
PCARResult(c) ==
    LET top_eigenvalues == Prefix(c.eigenvalues, c.n_components)
        summed == SumSeq(Array([k \in DOMAIN c.eigenvalues |-> Abs(c.eigenvalues[k])]))
        total_variance == IF summed = 0 THEN MilliScale ELSE summed
        variance_explained == VarianceExplained(top_eigenvalues, total_variance)
        first_contrast_eigenvalue ==
            IF Len(c.eigenvalues) > 0 THEN c.eigenvalues[1] ELSE 0
    IN  [eigenvalues |-> top_eigenvalues,
         variance_explained |-> variance_explained,
         cumulative_variance |-> Cumulative(variance_explained),
         first_contrast_eigenvalue |-> first_contrast_eigenvalue,
         is_unidimensional |-> first_contrast_eigenvalue < 2 * MilliScale,
         loadings |-> IF c.n_items > 0 THEN "first eigenvector" ELSE "None"]

\* line 1126: after a failed eigh the eigenvectors are
\* np.eye(n_items)[:, :min(n_components, n_items)]; with no column left,
\* eigenvectors[:, 0] at line 1149 raises IndexError
NoFirstEigenvector(c) ==
    c.eigh.kind = "raises" /\ c.n_items > 0 /\ Min2(c.n_components, c.n_items) = 0

PcarReport ==
    /\ post.pc = "eigen"
    /\ post' = IF NoFirstEigenvector(post)
               THEN [post EXCEPT !.pc = "raised"]
               ELSE [post EXCEPT !.pc = "done", !.result = PCARResult(post)]
    /\ UNCHANGED <<fits, sigalrm_handler, alarm, killed, dich, task, shape>>

\* a request of the PCAR endpoint for a stored analysis (Null when the id
\* names no analysis); item_parameters is Null or the stored difficulties
PcarRequest(analysis, n_components) ==
    [pc |-> "request", entry |-> "get_pcar_analysis", analysis |-> analysis,
     n_items |-> IF analysis = Null \/ analysis[1].item_parameters = Null THEN 0
                 ELSE Len(analysis[1].item_parameters[1]),
     n_components |-> n_components, response |-> 0, result |-> << >>]

\* np.var of a non-empty sequence of milli values, in milli-units
VarSeq(s) ==
    LET m == MeanSeq(s)
    IN  RDiv(SumSeq(Array([k \in DOMAIN s |-> (s[k] - m) * (s[k] - m)])),
             Len(s) * MilliScale)

RECURSIVE EstimatedEigenvalues(_, _)
\* lines 733-735: each further eigenvalue is max(0.1, 0.6 * the one before)
EstimatedEigenvalues(eigenvalues, n) ==
    IF Len(eigenvalues) >= n THEN eigenvalues
    ELSE EstimatedEigenvalues(
            Append(eigenvalues, Max2(100, RDiv(eigenvalues[Len(eigenvalues)] * 6, 10))), n)

\* lines 725-749: the simplified estimate from the spread of the difficulties
PcarEstimate(difficulties, n_components) ==
    LET n_items == Len(difficulties)
        estimated_first_eigenvalue == MilliScale + RDiv(VarSeq(difficulties), 2)
        eigenvalues == EstimatedEigenvalues(<<estimated_first_eigenvalue>>,
                                            Min2(n_components, n_items))
        variance_explained == VarianceExplained(eigenvalues, SumSeq(eigenvalues))
    IN  [eigenvalues |-> eigenvalues,
         variance_explained |-> variance_explained,
         cumulative_variance |-> Cumulative(variance_explained),
         first_contrast_eigenvalue |-> eigenvalues[1],
         is_unidimensional |-> eigenvalues[1] < 2 * MilliScale,
         loadings |-> "None"]

\* get_pcar_analysis, lines 702-749
get_pcar_analysis ==
    /\ post.pc = "request"
    /\ post.entry = "get_pcar_analysis"
    /\ post' =
         IF post.analysis = Null
         THEN [post EXCEPT !.pc = "done", !.response = 404]
         ELSE LET analysis == post.analysis[1] IN
              IF analysis.status # "completed" \/ analysis.item_parameters = Null
              THEN [post EXCEPT !.pc = "done", !.response = 400]
              ELSE IF analysis.model_type \notin PolytomousTypes
              THEN [post EXCEPT !.pc = "done", !.response = 400]
              ELSE IF Len(analysis.item_parameters[1]) < 3
              THEN [post EXCEPT !.pc = "done", !.response = 400]
              ELSE [post EXCEPT !.pc = "done", !.response = 200,
                                !.result = PcarEstimate(analysis.item_parameters[1],
                                                        post.n_components)]
    /\ UNCHANGED <<fits, sigalrm_handler, alarm, killed, dich, task, shape>>

(***************************************************************************)
(* SpecPcar: one PCAR analysis, by compute_pcar or by the endpoint         *)
(***************************************************************************)
\* between 0 and MaxComponents components are requested (the default is 5)
MaxComponents == 5

\* eigenvalues in milli-units
EigenvalueLevels == {0 - 50, 0, 400, 1000, 2000, 2600}

\* what np.linalg.eigh may do for n_items items: raise LinAlgError or
\* return the eigenvalues in ascending order; for a single item np.corrcoef
\* gives a 0-dimensional array, which eigh always refuses with LinAlgError
EighOutcomes(n_items) ==
    {[kind |-> "raises"]}
    \cup {[kind |-> "returns", eigenvalues |-> e] :
            e \in {x \in [1..n_items -> EigenvalueLevels] :
                        /\ n_items >= 2
                        /\ \A k \in 1..(n_items - 1) : x[k] <= x[k + 1]}}

\* the stored analyses a request may name
StoredAnalyses ==
    {Null}
    \cup {Stored([status |-> st, model_type |-> t, item_parameters |-> Null]) :
            st \in {"completed", "failed"}, t \in {"RSM", "2PL"}}
    \cup {Stored([status |-> st, model_type |-> t, item_parameters |-> Stored(d)]) :
            st \in {"completed", "running"}, t \in {"RSM", "PCM", "2PL"},
            d \in UNION {[1..n -> {0 - 2000, 0, 2000}] : n \in 0..MaxItems}}

InitPcar ==
    /\ \E n_components \in 0..MaxComponents :
          \/ \E n_items \in 1..MaxItems, n_persons \in {MaxPersons} :
                \E eigh \in EighOutcomes(n_items) :
                    post = PcarCall(n_persons, n_items, n_components, eigh)
          \/ \E analysis \in StoredAnalyses : post = PcarRequest(analysis, n_components)
    /\ fits = [f \in {1} |-> Idle]
    /\ sigalrm_handler = DefaultHandler
    /\ alarm = NoAlarm
    /\ killed = FALSE
    /\ dich = Idle
    /\ task = Idle
    /\ shape = Idle

NextPcar ==
    \/ PcarDecompose
    \/ PcarReport
    \/ get_pcar_analysis

SpecPcar == InitPcar /\ [][NextPcar]_vars

\* a PCAR result has been returned (by the function, or with HTTP 200)
PcarResultReturned == post.pc = "done" /\ post.response \in {0, 200}

\* C17: in every PCAR result the reported eigenvalues are in non-increasing
\* order, first_contrast_eigenvalue is the first reported eigenvalue (when
\* at least one component was requested, so that one is reported), and
\* is_unidimensional is true exactly when first_contrast_eigenvalue < 2.0
C17_PcarResultIsOrdered ==
    PcarResultReturned =>
        LET r == post.result IN
        /\ \A k \in 1..(Len(r.eigenvalues) - 1) : r.eigenvalues[k] >= r.eigenvalues[k + 1]
        /\ post.n_components >= 1 =>
              /\ Len(r.eigenvalues) >= 1
              /\ r.first_contrast_eigenvalue = r.eigenvalues[1]
        /\ r.is_unidimensional <=> (r.first_contrast_eigenvalue < 2000)

\* compute_pcar has returned four eigenvalues whose first is 2.6: the test
\* is not unidimensional
C17_Witness ==
    /\ PcarResultReturned /\ post.entry = "compute_pcar"
    /\ post.eigh.kind = "returns"
    /\ post.eigh.eigenvalues = <<0, 400, 1000, 2600>>
    /\ post.result.eigenvalues = <<2600, 1000, 400, 0>>
    /\ post.result.first_contrast_eigenvalue = 2600
    /\ ~post.result.is_unidimensional

\* the eigendecomposition of a compute_pcar call has failed
EighFailed == post.entry = "compute_pcar" /\ post.eigh.kind = "raises"

C19_FewItemsRejected ==
    (post.pc = "done" /\ post.n_items < 3
        /\ (post.entry = "compute_pcar"
            \/ (post.entry = "get_pcar_analysis" /\ post.analysis # Null))) =>
            /\ post.response = 400
            /\ post.result = << >>

\* the same, for the endpoint alone
C19_HoldsForEndpoint ==
    post.entry = "get_pcar_analysis" => C19_FewItemsRejected

(***************************************************************************)
(* compute_category_structure_table (polytomous_engine.py) and             *)
(* GET /{analysis_id}/category-structure                                   *)
(*   a category row carries the fields that feed the disorder flag and the *)
(*   recommendations: category, count, percent (in tenths of a percent),   *)
(*   observed_average and andrich_threshold (Null for None) and            *)
(*   is_disordered; label, observed_sd and se_threshold feed neither and   *)
(*   are left out                                                          *)
(***************************************************************************)
\* round(100 * count / total, 1) in tenths of a percent: Python rounds the
\* exact halves (total a power of two) to the even tenth
RoundedPercent(count, total) ==
    LET q == (count * 1000) \div total
        r == (count * 1000) % total
    IN  IF 2 * r > total \/ (2 * r = total /\ q % 2 = 1) THEN q + 1 ELSE q

\* a flag that also fires on equal thresholds
DisorderedOrEqual(threshold_value, previous_threshold) ==
    /\ previous_threshold # Null
    /\ threshold_value # Null
    /\ threshold_value[1] <= previous_threshold[1]

\* lines 1366-1368: is_disordered of one category
IsDisordered(threshold_value, previous_threshold) ==
    /\ previous_threshold # Null
    /\ threshold_value # Null
    /\ threshold_value[1] < previous_threshold[1]

\* np.sum(data == k)
CountOf(data, k) ==
    Cardinality({c \in ValidCells(data) : Val(data[c[1]][c[2]]) = k})

\* lines 1348-1355: np.mean(theta[np.where(data == k)[0]]), one theta per
\* response in category k (summed person by person); None when the
\* category has no response
ObservedAverage(data, theta, k) ==
    LET cells == {c \in ValidCells(data) : Val(data[c[1]][c[2]]) = k}
        persons == {c[1] : c \in cells}
        weighted == Array([i \in persons |->
                        theta[i] * Cardinality({c \in cells : c[1] = i})])
    IN  IF cells = {} THEN Null
        ELSE Stored(RDiv(SumOver(weighted, persons), Cardinality(cells)))

\* lines 1335-1338: the thresholds themselves (one-dimensional), or their
\* mean over the items (two-dimensional, PCM)
AvgThresholds(thresholds, ndim) ==
    IF ndim = 1 THEN thresholds
    ELSE Array([k \in 1..Len(thresholds[1]) |->
                  MeanSeq(Array([j \in 1..Len(thresholds) |-> thresholds[j][k]]))])

\* lines 1357-1361 and analysis.py 633-635: the threshold of category k
ThresholdOf(thresholds, k) ==
    IF k > 0 /\ k - 1 < Len(thresholds) THEN Stored(thresholds[k]) ELSE Null

\* the locals of a compute_category_structure_table call before its loop
CategoryCall(data, thresholds, ndim, theta, model_type) ==
    [pc |-> "category", entry |-> "compute_category_structure_table",
     data |-> data, theta |-> theta, model_type |-> model_type,
     n_categories |-> IF ndim = 1 THEN Len(thresholds) + 1 ELSE Len(thresholds[1]) + 1,
     avg_thresholds |-> AvgThresholds(thresholds, ndim),
     k |-> 0, previous_threshold |-> Null, categories |-> << >>,
     response |-> 0, result |-> << >>]

\* lines 1343-1383: one pass of the loop over the categories
CategoryRowAdded(c) ==
    LET count == CountOf(c.data, c.k)
        cells == NPersonsOf(c.data) * NItemsOf(c.data)
        threshold_value == ThresholdOf(c.avg_thresholds, c.k)
    IN  [c EXCEPT !.k = c.k + 1,
                  !.previous_threshold =
                        IF threshold_value # Null THEN threshold_value
                        ELSE c.previous_threshold,
                  !.categories = Append(c.categories,
                        [category |-> c.k,
                         count |-> count,
                         percent |-> IF cells > 0 THEN RoundedPercent(count, cells) ELSE 0,
                         observed_average |-> ObservedAverage(c.data, c.theta, c.k),
                         andrich_threshold |-> threshold_value,
                         is_disordered |-> IsDisordered(threshold_value,
                                                        c.previous_threshold)])]

CategoryRow ==
    /\ post.pc = "category"
    /\ post.k < post.n_categories
    /\ post' = CategoryRowAdded(post)
    /\ UNCHANGED <<fits, sigalrm_handler, alarm, killed, dich, task, shape>>

\* the category numbers of the rows that satisfy a flag
CategoriesOf(categories, flagged) ==
    {categories[i].category : i \in {j \in DOMAIN categories : flagged[j]}}

\* lines 1385-1403 and analysis.py 657-673: the recommendations on counts
\* and flags; percent < 1 is read on the rounded percent
Recommendations(categories) ==
    LET underutilized == CategoriesOf(categories,
            [i \in DOMAIN categories |->
                categories[i].count < 10 \/ categories[i].percent < 10])
        disordered == CategoriesOf(categories,
            [i \in DOMAIN categories |-> categories[i].is_disordered])
    IN  (IF underutilized # {}
         THEN <<[type |-> "underutilized", severity |-> "warning",
                 categories |-> underutilized]>>
         ELSE << >>)
        \o (IF disordered # {}
            THEN <<[type |-> "disordered", severity |-> "error",
                    categories |-> disordered]>>
            ELSE << >>)

\* lines 1405-1414: the observed averages that are not None do not
\* increase monotonically
NonMonotonic(categories) ==
    LET observed == {i \in DOMAIN categories : categories[i].observed_average # Null}
    IN  \E i \in observed, j \in observed :
            /\ i < j
            /\ \A l \in observed : ~(i < l /\ l < j)
            /\ categories[i].observed_average[1] > categories[j].observed_average[1]

\* lines 1385-1414: the recommendations of the function
FunctionRecommendations(categories) ==
    Recommendations(categories)
    \o (IF NonMonotonic(categories)
        THEN <<[type |-> "non_monotonic", severity |-> "warning"]>>
        ELSE << >>)

\* the returned table
CategoryTable(categories, n_categories, recommendations) ==
    [categories |-> categories,
     n_categories |-> n_categories,
     recommendations |-> recommendations,
     has_disordered_thresholds |->
        \E i \in DOMAIN categories : categories[i].is_disordered,
     has_underutilized_categories |->
        \E i \in DOMAIN categories :
            categories[i].count < 10 \/ categories[i].percent < 10]

\* the loop has ended: recommendations and return
CategoryReturn ==
    /\ post.pc = "category"
    /\ post.k = post.n_categories
    /\ post' = [post EXCEPT !.pc = "done",
                            !.result = CategoryTable(post.categories, post.n_categories,
                                            FunctionRecommendations(post.categories))]
    /\ UNCHANGED <<fits, sigalrm_handler, alarm, killed, dich, task, shape>>

\* a request of the category-structure endpoint for a stored analysis
CategoryRequest(analysis) ==
    [pc |-> "request", entry |-> "get_category_structure", analysis |-> analysis,
     response |-> 0, result |-> << >>]

\* analysis.py 629-647: the rows built from the stored counts and the
\* thresholds of the first item, every flag False
StoredCategoryRows(n_categories, category_counts, thresholds) ==
    LET total_responses == SumSeq(category_counts)
    IN  Array([i \in 1..n_categories |->
            LET count == IF i - 1 < Len(category_counts) THEN category_counts[i] ELSE 0
            IN  [category |-> i - 1,
                 count |-> count,
                 percent |-> IF total_responses > 0
                             THEN RoundedPercent(count, total_responses) ELSE 0,
                 observed_average |-> Null,
                 andrich_threshold |-> ThresholdOf(thresholds, i - 1),
                 is_disordered |-> FALSE]])

\* analysis.py 649-655: the flags; categories[i] of the code is rows[i + 1]
FlagDisordered(rows) ==
    Array([n \in DOMAIN rows |->
        LET i == n - 1
            curr_threshold == rows[n].andrich_threshold
            prev_threshold == IF i > 1 THEN rows[n - 1].andrich_threshold ELSE Null
        IN  IF i >= 1 /\ curr_threshold # Null /\ prev_threshold # Null
                /\ curr_threshold[1] < prev_threshold[1]
            THEN [rows[n] EXCEPT !.is_disordered = TRUE]
            ELSE rows[n]])

\* get_category_structure, analysis.py 596-684
get_category_structure ==
    /\ post.pc = "request"
    /\ post.entry = "get_category_structure"
    /\ post' =
         IF post.analysis = Null
         THEN [post EXCEPT !.pc = "done", !.response = 404]
         ELSE LET analysis == post.analysis[1] IN
              IF analysis.status # "completed" \/ analysis.item_parameters = Null
              THEN [post EXCEPT !.pc = "done", !.response = 400]
              ELSE IF analysis.model_type \notin PolytomousTypes
              THEN [post EXCEPT !.pc = "done", !.response = 400]
              ELSE LET stored == analysis.item_parameters[1] IN
                   IF stored.items = << >> \/ stored.n_categories = 0
                   THEN [post EXCEPT !.pc = "done", !.response = 400]
                   ELSE LET categories == FlagDisordered(StoredCategoryRows(
                                                stored.n_categories,
                                                stored.category_counts, stored.items[1]))
                        IN  [post EXCEPT
                                !.pc = "done", !.response = 200,
                                !.result = CategoryTable(categories, stored.n_categories,
                                                         Recommendations(categories))]
    /\ UNCHANGED <<fits, sigalrm_handler, alarm, killed, dich, task, shape>>

(***************************************************************************)
(* SpecCategory: one category structure table, by the function or by the   *)
(* endpoint                                                                *)
(***************************************************************************)
\* at most MaxThresholds thresholds per item
MaxThresholds == 3

\* thresholds in milli-units
ThresholdLevels == {0 - 500, 0, 500}

\* threshold vectors of 0..n thresholds
ThresholdVectors(n) == UNION {[1..l -> ThresholdLevels] : l \in 0..n}

\* a survey of 21 persons and 50 items in which ten persons answer the
\* first item in category 1 and every other response is in category 0:
\* category 1 holds 10 of 1050 cells
SurveyMatrix ==
    Array([i \in 1..21 |->
        Array([j \in 1..50 |-> IF i <= 10 /\ j = 1 THEN <<1>> ELSE <<0>>])])

\* response matrices: two persons by two items, three by four with ten
\* responses in category 0, and the survey
CategoryMatrices ==
    { <<<<<<0>>, <<1>>>>, <<<<2>>, <<1>>>>>>,
      <<<<<<0>>, <<0>>>>, <<<<0>>, NaNCell>>>>,
      <<<<<<0>>, <<0>>, <<0>>, <<0>>>>, <<<<0>>, <<0>>, <<0>>, <<0>>>>,
        <<<<0>>, <<0>>, <<1>>, <<2>>>>>>,
      SurveyMatrix }

\* person abilities in milli-units, rising or falling with the person
\* (in cycles of five persons)
CategoryThetas(n_persons) ==
    {Array([i \in 1..n_persons |-> ((i % 5) - 2) * 700]),
     Array([i \in 1..n_persons |-> (2 - (i % 5)) * 700])}

\* the calls of the function for one matrix: one threshold vector (RSM) or
\* one per item (PCM), all of one length
CategoryCallsFor(data) ==
    UNION {{CategoryCall(data, t, 1, theta, "RSM") :
                t \in ThresholdVectors(MaxThresholds)}
            \cup UNION {{CategoryCall(data, t, 2, theta, "PCM") :
                            t \in [1..NItemsOf(data) -> [1..l -> ThresholdLevels]]} :
                        l \in IF NItemsOf(data) = 2 THEN 1..(MaxThresholds - 1) ELSE {}} :
           theta \in CategoryThetas(NPersonsOf(data))}

CategoryCalls == UNION {CategoryCallsFor(data) : data \in CategoryMatrices}

\* the stored analyses a category-structure request may name; items holds
\* the thresholds of each stored item
StoredCategoryAnalyses ==
    {Null}
    \cup {Stored([status |-> st, model_type |-> t, item_parameters |-> Null]) :
            st \in {"completed", "failed"}, t \in {"RSM", "2PL"}}
    \cup {Stored([status |-> "completed", model_type |-> t,
                  item_parameters |->
                      Stored([items |-> items, n_categories |-> n_categories,
                              category_counts |-> category_counts])]) :
            t \in {"PCM", "2PL"},
            items \in {<< >>} \cup {<<th>> : th \in ThresholdVectors(MaxThresholds)},
            n_categories \in 0..(MaxThresholds + 1),
            category_counts \in {<< >>, <<12, 0, 3>>}}

InitCategory ==
    /\ \/ \E c \in CategoryCalls : post = c
       \/ \E analysis \in StoredCategoryAnalyses : post = CategoryRequest(analysis)
    /\ fits = [f \in {1} |-> Idle]
    /\ sigalrm_handler = DefaultHandler
    /\ alarm = NoAlarm
    /\ killed = FALSE
    /\ dich = Idle
    /\ task = Idle
    /\ shape = Idle

NextCategory ==
    \/ CategoryRow
    \/ CategoryReturn
    \/ get_category_structure

SpecCategory == InitCategory /\ [][NextCategory]_vars

\* a category structure table has been returned
CategoryTableReturned == post.pc = "done" /\ post.response \in {0, 200}

\* the threshold reported for category k of the returned table (Null when
\* the table has no such category or the category has no threshold)
ReportedThreshold(k) ==
    IF k + 1 \in DOMAIN post.result.categories
    THEN post.result.categories[k + 1].andrich_threshold
    ELSE Null

\* C20: in a returned category structure table category k is flagged
\* is_disordered exactly when it has a threshold, category k-1 has a
\* threshold too, and the threshold of k is strictly less than the
\* threshold of k-1; categories 0 and 1 are never flagged
C20_DisorderedIffThresholdDrops ==
    CategoryTableReturned =>
        \A n \in DOMAIN post.result.categories :
            LET row == post.result.categories[n]
                k == row.category
            IN  /\ k = n - 1
                /\ row.is_disordered <=>
                      /\ ReportedThreshold(k) # Null
                      /\ ReportedThreshold(k - 1) # Null
                      /\ ReportedThreshold(k)[1] < ReportedThreshold(k - 1)[1]
                /\ k \in {0, 1} => ~row.is_disordered

\* the function has returned a table of four categories with thresholds
\* 0.5, 0.5, -0.5: category 2 (equal thresholds) is not flagged, category 3
\* is
C20_Witness ==
    /\ CategoryTableReturned
    /\ post.entry = "compute_category_structure_table"
    /\ Len(post.result.categories) = 4
    /\ ReportedThreshold(1) = Stored(500)
    /\ ReportedThreshold(2) = Stored(500)
    /\ ReportedThreshold(3) = Stored(0 - 500)
    /\ ~post.result.categories[3].is_disordered
    /\ post.result.categories[4].is_disordered

\* the function compute_category_structure_table has returned its table
FunctionTableReturned ==
    CategoryTableReturned /\ post.entry = "compute_category_structure_table"

\* the returned recommendations hold one of this type and severity
Recommended(type, severity) ==
    \E i \in DOMAIN post.result.recommendations :
        /\ post.result.recommendations[i].type = type
        /\ post.result.recommendations[i].severity = severity

\* category row holds less than 1% of the n_persons x n_items cells
BelowOnePercent(row) ==
    row.count * 100 < NPersonsOf(post.data) * NItemsOf(post.data)

\* C21: compute_category_structure_table emits a warning 'underutilized'
\* recommendation exactly when some category has fewer than 10 responses or
\* holds less than 1% of the n_persons x n_items cells, and an error
\* 'disordered' recommendation exactly when some category is flagged
\* disordered
C21_RecommendationsIffUnderusedOrDisordered ==
    FunctionTableReturned =>
        LET rows == post.result.categories IN
        /\ Recommended("underutilized", "warning") <=>
              \E i \in DOMAIN rows : rows[i].count < 10 \/ BelowOnePercent(rows[i])
        /\ Recommended("disordered", "error") <=>
              \E i \in DOMAIN rows : rows[i].is_disordered

\* C21 as the code decides it: the share of a category is compared after
\* rounding to one decimal, so a share of 0.95% or more counts as 1%
C21_HoldsOnRoundedPercent ==
    FunctionTableReturned =>
        LET rows == post.result.categories IN
        /\ Recommended("underutilized", "warning") <=>
              \E i \in DOMAIN rows : rows[i].count < 10 \/ rows[i].percent < 10
        /\ Recommended("disordered", "error") <=>
              \E i \in DOMAIN rows : rows[i].is_disordered

\* the survey with two categories: category 1 holds ten responses, 0.95%
\* of the cells, and no 'underutilized' recommendation is returned
C21_SurveyNotReported ==
    /\ FunctionTableReturned
    /\ post.data = SurveyMatrix
    /\ Len(post.result.categories) = 2
    /\ post.result.categories[2].count = 10
    /\ BelowOnePercent(post.result.categories[2])
    /\ ~Recommended("underutilized", "warning")

(***************************************************************************)
(* Reliability and separation: compute_reliability_statistics,             *)
(* _compute_person_standard_errors, compute_reliability_from_stored_results*)
(* and GET /{analysis_id}/reliability.  Variances and squared standard     *)
(* errors are in milli-units of squared logits, reliabilities, separations *)
(* and strata in milli-units; NaNMilli stands for a NaN.                   *)
(***************************************************************************)
\* np.var: NaN for an empty array or when an element is NaN
NpVar(s) ==
    IF s = << >> \/ (\E k \in DOMAIN s : s[k] = NaNMilli) THEN NaNMilli ELSE VarSeq(s)

\* np.mean: NaN for an empty array or when an element is NaN
NpMean(s) ==
    IF s = << >> \/ (\E k \in DOMAIN s : s[k] = NaNMilli) THEN NaNMilli ELSE MeanSeq(s)

\* max(0, variance - mean_se_squared): the builtin max keeps its first
\* argument when the comparison with a NaN is False
TrueVariance(variance, mean_se_squared) ==
    IF variance = NaNMilli \/ mean_se_squared = NaNMilli THEN 0
    ELSE Max2(0, variance - mean_se_squared)

\* true_variance / variance if variance > 0 else 0.0, then np.clip(., 0, 1)
Reliability(variance, mean_se_squared) ==
    IF variance # NaNMilli /\ variance > 0
    THEN Clip(RDiv(TrueVariance(variance, mean_se_squared) * MilliScale, variance),
              0, MilliScale)
    ELSE 0

\* np.sqrt of a milli value, in milli-units
SqrtMilli(x) == IF x = NaNMilli THEN NaNMilli ELSE ISqrt(x * MilliScale)

\* sqrt(true_variance) / rmse if rmse > 0 else 0.0, then max(0, .)
Separation(variance, mean_se_squared) ==
    LET rmse == SqrtMilli(mean_se_squared)
    IN  IF rmse # NaNMilli /\ rmse > 0
        THEN Max2(0, RDiv(SqrtMilli(TrueVariance(variance, mean_se_squared)) * MilliScale,
                          rmse))
        ELSE 0

\* strata without the floor at 1
StrataUnfloored(separation) == RDiv(4 * separation + MilliScale, 3)

\* (4 * separation + 1) / 3, then max(1, .)
Strata(separation) == Max2(MilliScale, RDiv(4 * separation + MilliScale, 3))

\* the six statistics from the two variances and the two mean squared
\* standard errors
ReliabilityStatistics(theta_variance, mean_se_squared, item_variance, mean_item_se_squared) ==
    [person_reliability |-> Reliability(theta_variance, mean_se_squared),
     item_reliability |-> Reliability(item_variance, mean_item_se_squared),
     person_separation |-> Separation(theta_variance, mean_se_squared),
     item_separation |-> Separation(item_variance, mean_item_se_squared),
     person_strata |-> Strata(Separation(theta_variance, mean_se_squared)),
     item_strata |-> Strata(Separation(item_variance, mean_item_se_squared))]

\* lines 1025-1043: the information of person i, in units of 1/ProbScale;
\* NaN when the person answered an item whose difficulty is NaN
PersonInformation(data, difficulty, thresholds, theta, model_type, i) ==
    LET items == ValidItems(data, i)
    IN  IF \E j \in items : difficulty[j] = NaNMilli THEN NaNMilli
        ELSE SumOver(Array([j \in items |->
                ScoreVariance(CategoryProbabilities(theta[i], difficulty[j],
                                  ItemThresholds(thresholds, model_type, j)),
                              0 - ProbScale * ProbScale)]), items)

\* _compute_person_standard_errors, lines 1004-1051: 1 / sqrt(info) when
\* info > 0 and 1.0 otherwise, times 0.8 for ceiling or floor data when the
\* person answered an item; in milli-units
_compute_person_standard_errors(data, difficulty, thresholds, theta, model_type) ==
    LET n_categories == IF IsRsm(model_type) \/ thresholds = << >>
                        THEN Len(thresholds) + 1 ELSE Len(thresholds[1]) + 1
        shrink == IsCeiling(data, n_categories) \/ IsFloor(data, n_categories)
    IN  Array([i \in PersonsOf(data) |->
            LET info == PersonInformation(data, difficulty, thresholds, theta, model_type, i)
                se == IF info # NaNMilli /\ info > 0
                      THEN RDiv(ProbScale * MilliScale, ISqrt(info * ProbScale))
                      ELSE MilliScale
            IN  IF shrink /\ ValidItems(data, i) # {} THEN RDiv(se * 8, 10) ELSE se])

\* the squares of a sequence of milli values, in milli-units
Squares(s) == Array([k \in DOMAIN s |-> RDiv(s[k] * s[k], MilliScale)])

\* compute_reliability_statistics, lines 921-1001
compute_reliability_statistics(data, difficulty, thresholds, theta, model_type) ==
    LET person_se == _compute_person_standard_errors(data, difficulty, thresholds,
                                                     theta, model_type)
    IN  ReliabilityStatistics(NpVar(theta), NpMean(Squares(person_se)),
                              NpVar(difficulty), RDiv(MilliScale, NPersonsOf(data)))

\* p.get("se", 0.5) or 0.5: a missing, None or zero standard error is 0.5
StoredSe(p) == IF p.se = Null \/ p.se = Stored(0) THEN 500 ELSE p.se[1]

\* the statistics returned for empty stored results, lines 1448-1456
EmptyReliability ==
    [person_reliability |-> 0, item_reliability |-> 0,
     person_separation |-> 0, item_separation |-> 0,
     person_strata |-> MilliScale, item_strata |-> MilliScale]

\* compute_reliability_from_stored_results, lines 1429-1496
compute_reliability_from_stored_results(items, persons) ==
    IF items = << >> \/ persons = << >> THEN EmptyReliability
    ELSE ReliabilityStatistics(
            NpVar(Array([k \in DOMAIN persons |-> persons[k].theta])),
            NpMean(Squares(Array([k \in DOMAIN persons |-> StoredSe(persons[k])]))),
            NpVar(Array([k \in DOMAIN items |-> items[k].difficulty])),
            RDiv(MilliScale, Len(persons)))

\* the call records of the three entry points
ReliabilityCall(data, difficulty, thresholds, theta, model_type) ==
    [pc |-> "reliability", entry |-> "compute_reliability_statistics",
     data |-> data, difficulty |-> difficulty, thresholds |-> thresholds,
     theta |-> theta, model_type |-> model_type, response |-> 0, result |-> << >>]

StoredReliabilityCall(items, persons) ==
    [pc |-> "reliability", entry |-> "compute_reliability_from_stored_results",
     items |-> items, persons |-> persons, response |-> 0, result |-> << >>]

ReliabilityRequest(analysis) ==
    [pc |-> "request", entry |-> "get_reliability_statistics", analysis |-> analysis,
     response |-> 0, result |-> << >>]

\* a call of compute_reliability_statistics returns
ReliabilityReturn ==
    /\ post.pc = "reliability"
    /\ post.entry = "compute_reliability_statistics"
    /\ post' = [post EXCEPT !.pc = "done",
                  !.result = compute_reliability_statistics(post.data, post.difficulty,
                                 post.thresholds, post.theta, post.model_type)]
    /\ UNCHANGED <<fits, sigalrm_handler, alarm, killed, dich, task, shape>>

\* a call of compute_reliability_from_stored_results returns
StoredReliabilityReturn ==
    /\ post.pc = "reliability"
    /\ post.entry = "compute_reliability_from_stored_results"
    /\ post' = [post EXCEPT !.pc = "done",
                  !.result = compute_reliability_from_stored_results(post.items,
                                                                     post.persons)]
    /\ UNCHANGED <<fits, sigalrm_handler, alarm, killed, dich, task, shape>>

\* get_reliability_statistics, analysis.py 560-586
get_reliability_statistics ==
    /\ post.pc = "request"
    /\ post.entry = "get_reliability_statistics"
    /\ post' =
         IF post.analysis = Null
         THEN [post EXCEPT !.pc = "done", !.response = 404]
         ELSE LET analysis == post.analysis[1] IN
              IF analysis.status # "completed" \/ analysis.item_parameters = Null
              THEN [post EXCEPT !.pc = "done", !.response = 400]
              ELSE IF analysis.model_type \notin PolytomousTypes
              THEN [post EXCEPT !.pc = "done", !.response = 400]
              ELSE [post EXCEPT !.pc = "done", !.response = 200,
                       !.result = compute_reliability_from_stored_results(
                                      analysis.item_parameters[1].items,
                                      analysis.ability_estimates.persons)]
    /\ UNCHANGED <<fits, sigalrm_handler, alarm, killed, dich, task, shape>>

(***************************************************************************)
(* SpecReliability: one reliability computation through each entry point   *)
(***************************************************************************)
\* difficulties and abilities in milli-units; a difficulty may be NaN (the
\* AUTO heuristic on a single category)
ReliabilityLevels == {0 - 1500, 0, 1500}
DifficultyVectors == [1..2 -> ReliabilityLevels \cup {NaNMilli}]
AbilityVectors == [1..2 -> ReliabilityLevels]

\* two persons by two items: middling, floor with a missing cell, and a
\* person without any response
ReliabilityMatrices ==
    { <<<<<<0>>, <<1>>>>, <<<<2>>, <<1>>>>>>,
      <<<<<<0>>, <<0>>>>, <<<<1>>, NaNCell>>>>,
      <<<<<<2>>, <<1>>>>, <<NaNCell, NaNCell>>>> }

ReliabilityCalls ==
    {ReliabilityCall(data, difficulty, thresholds, theta, "RSM") :
        data \in ReliabilityMatrices, difficulty \in DifficultyVectors,
        thresholds \in {<< >>, <<0 - 500, 500>>}, theta \in AbilityVectors}
    \cup {ReliabilityCall(data, difficulty, thresholds, theta, "PCM") :
            data \in ReliabilityMatrices, difficulty \in DifficultyVectors,
            thresholds \in {<<<<0 - 500, 500>>, <<500, 0>>>>}, theta \in AbilityVectors}

\* stored items and persons: none, one, or two of each
StoredItems ==
    {<< >>} \cup {<<[difficulty |-> d]>> : d \in ReliabilityLevels}
    \cup {<<[difficulty |-> d[1]], [difficulty |-> d[2]]>> : d \in DifficultyVectors}

StoredSes == {Null, Stored(0), Stored(300), Stored(2000)}

StoredPersons ==
    {<< >>} \cup {<<[theta |-> t, se |-> se]>> : t \in ReliabilityLevels, se \in StoredSes}
    \cup {<<[theta |-> t[1], se |-> se], [theta |-> t[2], se |-> Stored(300)]>> :
            t \in AbilityVectors, se \in StoredSes}

\* the stored analyses a reliability request may name
StoredReliabilityAnalyses ==
    {Null}
    \cup {Stored([status |-> st, model_type |-> t, item_parameters |-> Null,
                  ability_estimates |-> Null]) :
            st \in {"completed", "failed"}, t \in {"RSM", "2PL"}}
    \cup {Stored([status |-> "completed", model_type |-> t,
                  item_parameters |-> Stored([items |-> items]),
                  ability_estimates |-> [persons |-> persons]]) :
            t \in {"PCM", "2PL"}, items \in StoredItems, persons \in StoredPersons}

InitReliability ==
    /\ \/ \E c \in ReliabilityCalls : post = c
       \/ \E items \in StoredItems, persons \in StoredPersons :
            post = StoredReliabilityCall(items, persons)
       \/ \E analysis \in StoredReliabilityAnalyses : post = ReliabilityRequest(analysis)
    /\ fits = [f \in {1} |-> Idle]
    /\ sigalrm_handler = DefaultHandler
    /\ alarm = NoAlarm
    /\ killed = FALSE
    /\ dich = Idle
    /\ task = Idle
    /\ shape = Idle

NextReliability ==
    \/ ReliabilityReturn
    \/ StoredReliabilityReturn
    \/ get_reliability_statistics

SpecReliability == InitReliability /\ [][NextReliability]_vars

\* reliability statistics have been returned
ReliabilityReturned ==
    /\ post.pc = "done"
    /\ post.entry \in {"compute_reliability_statistics",
                       "compute_reliability_from_stored_results",
                       "get_reliability_statistics"}
    /\ post.response \in {0, 200}

\* C22: for every input, zero-variance thetas or difficulties and empty
\* stored results included, the returned reliability statistics have
\* person_reliability and item_reliability in [0, 1], person_separation and
\* item_separation >= 0, person_strata and item_strata >= 1
C22_ReliabilityStatisticsInRange ==
    ReliabilityReturned =>
        LET r == post.result IN
        /\ r.person_reliability \in 0..MilliScale
        /\ r.item_reliability \in 0..MilliScale
        /\ r.person_separation >= 0
        /\ r.item_separation >= 0
        /\ r.person_strata >= MilliScale
        /\ r.item_strata >= MilliScale

\* compute_reliability_statistics has returned for thetas without variance
\* and a NaN difficulty: both reliabilities and separations are 0, both
\* strata 1
C22_Witness ==
    /\ ReliabilityReturned
    /\ post.entry = "compute_reliability_statistics"
    /\ post.theta[1] = post.theta[2]
    /\ post.difficulty[1] = NaNMilli
    /\ post.result = EmptyReliability

\* compute_reliability_statistics has returned a person reliability
\* strictly between 0 and 1 and a person separation above 0
C22_ProperReliability ==
    /\ ReliabilityReturned
    /\ post.entry = "compute_reliability_statistics"
    /\ post.result.person_reliability \in 1..(MilliScale - 1)
    /\ post.result.person_separation > 0

(***************************************************************************)
(* Visualization data builders: compute_icc_data, compute_item_information,*)
(* compute_information_functions (irt_engine.py),                          *)
(* compute_category_probability_curves and compute_wright_map_data         *)
(* (polytomous_engine.py).  A stored item is a record whose optional keys  *)
(* hold Null when the key is absent; a stored list that is absent is Null. *)
(***************************************************************************)
\* np.linspace(-4, 4, 81) in milli-units
GridPoints == 81
ThetaRange == Array([n \in 1..GridPoints |-> (n - 41) * 100])

\* dict.get(key, default)
GetOr(value, default) == IF value = Null THEN default ELSE value[1]

\* a builder's exit: a returned series, or an exception
Series(value) == [kind |-> "returns", value |-> value]
Raised(error) == [kind |-> "raises", error |-> error]

\* compute_icc_data, irt_engine.py 180-202
compute_icc_data(item_parameters) ==
    LET items == GetOr(item_parameters.items, << >>)
    IN  Series(Array([n \in DOMAIN items |->
            LET a == GetOr(items[n].discrimination, MilliScale)
                b == GetOr(items[n].difficulty, 0)
                c == GetOr(items[n].guessing, 0)
            IN  [item_name |-> items[n].name,
                 data |-> Array([t \in DOMAIN ThetaRange |->
                            [theta |-> ThetaRange[t],
                             probability |-> compute_probability(ThetaRange[t], b, a, c)]])]]))

\* compute_item_information, irt_engine.py 205-217: a^2 (p - c)^2 q over
\* p (1 - c)^2, or 0.0 when the denominator is below 1e-10; in milli-units
compute_item_information(theta, difficulty, discrimination, guessing) ==
    LET prob == compute_probability(theta, difficulty, discrimination, guessing)
        q == ProbScale - prob
        above == RDiv((prob - guessing) * (prob - guessing), ProbScale)
        numerator == RDiv(above * q, ProbScale)
        denominator == RDiv(prob * RDiv((ProbScale - guessing) * (ProbScale - guessing),
                                        ProbScale), ProbScale)
    IN  IF denominator <= 0 THEN 0
        ELSE RDiv(RDiv(discrimination * discrimination, MilliScale)
                    * RDiv(numerator * MilliScale, denominator), MilliScale)

\* compute_information_functions, irt_engine.py 220-253
compute_information_functions(item_parameters) ==
    LET items == GetOr(item_parameters.items, << >>)
        info_values == Array([n \in DOMAIN items |->
            Array([t \in DOMAIN ThetaRange |->
                compute_item_information(ThetaRange[t],
                    GetOr(items[n].difficulty, 0),
                    GetOr(items[n].discrimination, MilliScale),
                    GetOr(items[n].guessing, 0))])])
    IN  Series([item_information |->
                    Array([n \in DOMAIN items |->
                        [item_name |-> items[n].name, data |-> info_values[n]]]),
                test_information |->
                    Array([t \in DOMAIN ThetaRange |->
                        SumSeq(Array([n \in DOMAIN items |-> info_values[n][t]]))])])

\* the curves of one item: one per category
ItemCurves(item) ==
    LET item_thresholds == GetOr(item.thresholds, << >>)
        difficulty == GetOr(item.difficulty, 0)
    IN  Array([k \in 1..(Len(item_thresholds) + 1) |->
            [item_name |-> item.name, category |-> k - 1,
             data |-> Array([t \in DOMAIN ThetaRange |->
                        compute_category_probability(ThetaRange[t], difficulty,
                                                     item_thresholds, k - 1)])]])

RECURSIVE Concatenated(_)
\* the concatenation of a sequence of sequences
Concatenated(seqs) ==
    IF seqs = << >> THEN << >> ELSE Head(seqs) \o Concatenated(Tail(seqs))

\* compute_category_probability_curves, polytomous_engine.py 719-763
compute_category_probability_curves(item_parameters, selected_item) ==
    LET items == GetOr(item_parameters.items, << >>)
    IN  Series(Concatenated(Array([n \in DOMAIN items |->
            IF selected_item # Null /\ items[n].name # selected_item[1]
            THEN << >> ELSE ItemCurves(items[n])])))

\* the bin of np.histogram(theta_values, bins=np.linspace(-4, 4, 33)) that
\* counts a value: 32 bins of width 0.25, the last one closed on the right;
\* 0 when the value lies outside [-4, 4] or is NaN
WrightBins == 32
BinOf(theta) ==
    IF theta = NaNMilli \/ theta < 0 - 4000 \/ theta > 4000 THEN 0
    ELSE IF theta = 4000 THEN WrightBins
    ELSE ((theta + 4000) \div 250) + 1

\* hist of np.histogram
Histogram(theta_values) ==
    Array([b \in 1..WrightBins |->
        Cardinality({n \in DOMAIN theta_values : BinOf(theta_values[n]) = b})])

\* the bins that hold a person, with their midpoints
PersonDistribution(theta_values) ==
    LET hist == Histogram(theta_values)
    IN  SelectSeq(Array([b \in 1..WrightBins |->
                      [theta |-> (0 - 4000) + 250 * b - 125, count |-> hist[b]]]),
                  LAMBDA bin : bin.count > 0)

\* the smallest and the largest of a non-empty set of milli values
MinOf(S) == CHOOSE x \in S : \A y \in S : x <= y
MaxOf(S) == CHOOSE x \in S : \A y \in S : x >= y

\* compute_wright_map_data, polytomous_engine.py 766-822
compute_wright_map_data(item_parameters, ability_estimates) ==
    LET items == GetOr(item_parameters.items, << >>)
        persons == GetOr(ability_estimates.persons, << >>)
        theta_values == Array([n \in DOMAIN persons |-> persons[n].theta])
        all_values ==
            {theta_values[n] : n \in DOMAIN theta_values}
            \cup {GetOr(items[n].difficulty, 0) : n \in DOMAIN items}
            \cup UNION {{GetOr(items[n].thresholds, << >>)[k] :
                            k \in DOMAIN GetOr(items[n].thresholds, << >>)} :
                        n \in DOMAIN items}
    IN  Series([persons |-> PersonDistribution(theta_values),
                items |-> Array([n \in DOMAIN items |->
                            [name |-> items[n].name,
                             difficulty |-> GetOr(items[n].difficulty, 0),
                             thresholds |-> GetOr(items[n].thresholds, << >>)]]),
                min_logit |-> IF all_values = {} THEN 0 - 4000
                              ELSE Min2(0 - 4000, MinOf(all_values) - 500),
                max_logit |-> IF all_values = {} THEN 4000
                              ELSE Max2(4000, MaxOf(all_values) + 500)])

\* a call of a builder on stored parameters
BuilderCall(entry, item_parameters, ability_estimates, selected_item) ==
    [pc |-> "builder", entry |-> entry, item_parameters |-> item_parameters,
     ability_estimates |-> ability_estimates, selected_item |-> selected_item,
     response |-> 0, result |-> << >>]

\* the call has ended with this exit
BuilderEnded(c, exit) == [c EXCEPT !.pc = "done", !.result = exit]

IccData ==
    /\ post.pc = "builder" /\ post.entry = "compute_icc_data"
    /\ post' = BuilderEnded(post, compute_icc_data(post.item_parameters))
    /\ UNCHANGED <<fits, sigalrm_handler, alarm, killed, dich, task, shape>>

InformationFunctions ==
    /\ post.pc = "builder" /\ post.entry = "compute_information_functions"
    /\ post' = BuilderEnded(post, compute_information_functions(post.item_parameters))
    /\ UNCHANGED <<fits, sigalrm_handler, alarm, killed, dich, task, shape>>

CategoryProbabilityCurves ==
    /\ post.pc = "builder" /\ post.entry = "compute_category_probability_curves"
    /\ post' = BuilderEnded(post, compute_category_probability_curves(
                                      post.item_parameters, post.selected_item))
    /\ UNCHANGED <<fits, sigalrm_handler, alarm, killed, dich, task, shape>>

WrightMapData ==
    /\ post.pc = "builder" /\ post.entry = "compute_wright_map_data"
    /\ post' = BuilderEnded(post, compute_wright_map_data(post.item_parameters,
                                                          post.ability_estimates))
    /\ UNCHANGED <<fits, sigalrm_handler, alarm, killed, dich, task, shape>>

(***************************************************************************)
(* SpecBuilders: one call of a visualization data builder                  *)
(***************************************************************************)
\* the stored forms of one item: every parameter stored, the difficulty
\* absent, the thresholds absent, only the name stored
StoredItemForms(name) ==
    {[name |-> name, difficulty |-> Stored(500), discrimination |-> Stored(1200),
      guessing |-> Stored(2000), thresholds |-> Stored(<<0 - 500, 500>>)],
     [name |-> name, difficulty |-> Null, discrimination |-> Stored(1200),
      guessing |-> Null, thresholds |-> Stored(<<0 - 500, 500>>)],
     [name |-> name, difficulty |-> Stored(0 - 4800), discrimination |-> Null,
      guessing |-> Null, thresholds |-> Null],
     [name |-> name, difficulty |-> Null, discrimination |-> Null,
      guessing |-> Null, thresholds |-> Null]}

\* item_parameters: the item list absent, empty, or of one or two items
StoredItemParameters ==
    {[items |-> Null], [items |-> Stored(<< >>)]}
    \cup {[items |-> Stored(<<i>>)] : i \in StoredItemForms("Q1")}
    \cup {[items |-> Stored(<<i, j>>)] :
            i \in StoredItemForms("Q1"), j \in StoredItemForms("Q2")}

\* ability_estimates: the person list absent, empty, or of up to three
\* persons
StoredAbilityEstimates ==
    {[persons |-> Null], [persons |-> Stored(<< >>)]}
    \cup {[persons |-> Stored(<<[theta |-> t]>>)] : t \in {0 - 4000, 120, 4000}}
    \cup {[persons |-> Stored(<<[theta |-> 0 - 300], [theta |-> t], [theta |-> 3999]>>)] :
            t \in {0 - 300, 0 - 250, 3750}}

InitBuilders ==
    /\ \/ \E entry \in {"compute_icc_data", "compute_information_functions"},
             item_parameters \in StoredItemParameters :
            post = BuilderCall(entry, item_parameters, [persons |-> Null], Null)
       \/ \E item_parameters \in StoredItemParameters, selected_item \in {Null, Stored("Q1"), Stored("Q9")} :
            post = BuilderCall("compute_category_probability_curves", item_parameters,
                               [persons |-> Null], selected_item)
       \/ \E item_parameters \in StoredItemParameters,
             ability_estimates \in StoredAbilityEstimates :
            post = BuilderCall("compute_wright_map_data", item_parameters,
                               ability_estimates, Null)
    /\ fits = [f \in {1} |-> Idle]
    /\ sigalrm_handler = DefaultHandler
    /\ alarm = NoAlarm
    /\ killed = FALSE
    /\ dich = Idle
    /\ task = Idle
    /\ shape = Idle

NextBuilders ==
    \/ IccData
    \/ InformationFunctions
    \/ CategoryProbabilityCurves
    \/ WrightMapData

SpecBuilders == InitBuilders /\ [][NextBuilders]_vars

\* a stored parameter the builder of call c requires is absent: the item
\* list, an item's difficulty, an item's thresholds (category curves and
\* Wright map), the person abilities (Wright map)
RequiredParameterAbsent(c) ==
    LET items == GetOr(c.item_parameters.items, << >>)
        needs_thresholds == c.entry \in {"compute_category_probability_curves",
                                         "compute_wright_map_data"}
    IN  \/ c.item_parameters.items = Null
        \/ \E n \in DOMAIN items : items[n].difficulty = Null
        \/ needs_thresholds /\ \E n \in DOMAIN items : items[n].thresholds = Null
        \/ c.entry = "compute_wright_map_data" /\ c.ability_estimates.persons = Null

\* C23: each visualization data builder fails with an insufficient-data
\* error, instead of returning a series, whenever a stored parameter it
\* requires is absent
C23_BuildersFailWithoutParameters ==
    (post.pc = "done" /\ RequiredParameterAbsent(post)) =>
        post.result = Raised("InsufficientDataError")

\* what the builders do instead: every call returns a series
C23_BuildersAlwaysReturn ==
    post.pc = "done" => post.result.kind = "returns"

\* compute_icc_data has returned an empty list of curves for item
\* parameters without an item list
C23_EmptySeriesForAbsentItems ==
    /\ post.pc = "done"
    /\ post.entry = "compute_icc_data"
    /\ post.item_parameters.items = Null
    /\ post.result = Series(<< >>)

(***************************************************************************)
(* Centring of the returned difficulties                                   *)
(***************************************************************************)
\* the difficulties d sum to zero: none is NaN and the sum is zero up to
\* the rounding of the subtracted mean (half a unit per item)
SumsToZero(d) ==
    /\ \A j \in DOMAIN d : d[j] # NaNMilli
    /\ 2 * Abs(SumSeq(d)) <= Len(d)

\* C24: in every estimation path of fit_polytomous_model (AUTO, JMLE
\* converged or not, MML success, MML fallback) the returned item
\* difficulties are centred: they sum to zero across the items
C24_DifficultiesCentred ==
    \A f \in DOMAIN fits :
        fits[f].pc = "done" => SumsToZero(fits[f].result.difficulty)

\* C24 holds for every matrix with at least two distinct response values
C24_HoldsWithSeveralCategories ==
    \A f \in DOMAIN fits :
        (fits[f].pc = "done" /\ fits[f].n_categories >= 2) =>
            SumsToZero(fits[f].result.difficulty)

\* an AUTO fit of a matrix with a single response value has returned NaN
\* difficulties
C24_SingleCategoryGivesNaN ==
    \E f \in DOMAIN fits :
        /\ fits[f].pc = "done"
        /\ fits[f].effective_mode = "auto"
        /\ fits[f].n_categories = 1
        /\ \A j \in DOMAIN fits[f].result.difficulty :
              fits[f].result.difficulty[j] = NaNMilli

(***************************************************************************)
(* The JMLE loop: which iterations move the person abilities               *)
(***************************************************************************)
\* the number of leading iterations in which call c updates theta: 3 when
\* the mean score proportion is above 0.65 or below 0.35, 5 otherwise
ThetaIterations(c) ==
    IF IsCeiling(c.data_normalized, c.n_categories)
       \/ IsFloor(c.data_normalized, c.n_categories) THEN 3 ELSE 5

\* C25: in the JMLE loop the person abilities are updated only during the
\* first 3 iterations for ceiling or floor data and only during the first 5
\* otherwise; every later iteration leaves theta unchanged (only the
\* difficulties change)
C25_ThetaFrozenAfterFirstIterations ==
    [][\A f \in DOMAIN fits :
          (fits[f].pc = "jmle" /\ fits[f].iteration >= ThetaIterations(fits[f])) =>
              /\ fits'[f].theta = fits[f].theta
              /\ fits'[f].thresholds = fits[f].thresholds]_vars

\* the fourth iteration of the loop on floor or ceiling data has changed a
\* difficulty
C25_Witness ==
    \E f \in DOMAIN fits :
        /\ fits[f].effective_mode = "jmle"
        /\ fits[f].pc \in {"jmle", "estimated"}
        /\ ThetaIterations(fits[f]) = 3
        /\ fits[f].iteration = 4
        /\ fits[f].difficulty # fits[f].old_difficulty

\* an early iteration moves theta: after the first iteration the abilities
\* differ from the initial ones
C25_ThetaMovesEarly ==
    \E f \in DOMAIN fits :
        /\ fits[f].effective_mode = "jmle"
        /\ fits[f].pc = "jmle"
        /\ fits[f].iteration = 1
        /\ fits[f].theta # JmleInitialTheta(fits[f].data_normalized, fits[f].n_categories)

(***************************************************************************)
(* The JMLE loop: the range of the person abilities                        *)
(***************************************************************************)
\* the active ability range of call c, in milli-units: [-3.5, 4.5] for
\* ceiling data, [-4.5, 3.5] for floor data, [-4, 4] otherwise
ActiveRange(c) ==
    IF IsCeiling(c.data_normalized, c.n_categories) THEN (0 - 3500)..4500
    ELSE IF IsFloor(c.data_normalized, c.n_categories) THEN (0 - 4500)..3500
    ELSE (0 - 4000)..4000

\* call f is a JMLE fit past its initialisation
JmleUnderWay(f) ==
    fits[f].effective_mode = "jmle" /\ fits[f].pc \in {"jmle", "estimated", "done"}

\* every theta of call f, and of its result once returned, lies in the
\* active range
ThetasInRange(f) ==
    /\ \A i \in DOMAIN fits[f].theta : fits[f].theta[i] \in ActiveRange(fits[f])
    /\ fits[f].pc = "done" =>
          \A i \in DOMAIN fits[f].result.theta :
              fits[f].result.theta[i] \in ActiveRange(fits[f])

\* C26: throughout the JMLE estimation every person's theta stays within
\* the active ability range, after the initialisation and after every
\* iteration, so the returned thetas lie in that range
C26_ThetaWithinActiveRange ==
    \A f \in DOMAIN fits : JmleUnderWay(f) => ThetasInRange(f)

\* C26 holds for every matrix with at least two distinct response values
C26_HoldsWithSeveralCategories ==
    \A f \in DOMAIN fits :
        (JmleUnderWay(f) /\ fits[f].n_categories >= 2) => ThetasInRange(f)

\* a JMLE fit of a matrix with a single response value has returned NaN
\* abilities
C26_SingleCategoryGivesNaN ==
    \E f \in DOMAIN fits :
        /\ JmleUnderWay(f)
        /\ fits[f].pc = "done"
        /\ fits[f].n_categories = 1
        /\ \A i \in DOMAIN fits[f].result.theta : fits[f].result.theta[i] = NaNMilli

(***************************************************************************)
(* The JMLE loop leaves the thresholds of the AUTO heuristic               *)
(***************************************************************************)
\* the thresholds the AUTO heuristic produces for the matrix of call c
AutoThresholds(c) ==
    _estimate_parameters_fallback(c.data_normalized, c.n_categories,
                                  c.model_type).thresholds

\* C27: the JMLE iteration never changes the thresholds: the thresholds
\* returned by a JMLE-mode fit are exactly the thresholds the AUTO heuristic
\* produces for that matrix, whatever the number of iterations run
C27_JmleKeepsAutoThresholds ==
    \A f \in DOMAIN fits :
        (fits[f].effective_mode = "jmle" /\ fits[f].pc = "done") =>
            fits[f].result.thresholds = AutoThresholds(fits[f])

\* a JMLE fit has returned after several iterations that moved the
\* difficulties away from the heuristic's, with thresholds to keep
C27_Witness ==
    \E f \in DOMAIN fits :
        /\ fits[f].effective_mode = "jmle"
        /\ fits[f].pc = "done"
        /\ fits[f].iteration >= 3
        /\ fits[f].result.thresholds # << >>
        /\ fits[f].result.difficulty #
              _estimate_parameters_fallback(fits[f].data_normalized, fits[f].n_categories,
                                            fits[f].model_type).difficulty
        /\ fits[f].result.thresholds = AutoThresholds(fits[f])

(***************************************************************************)
(* The alarm and the SIGALRM handler around the MML optimizer call         *)
(***************************************************************************)
\* call f has left the optimizer call it entered with its own handler
LeftOptimizer(f) ==
    /\ fits[f].effective_mode = "mml"
    /\ fits[f].old_handler # None
    /\ fits[f].pc \in {"estimated", "done"}

C28_ReturnedAndTimedOut ==
    \E f \in DOMAIN fits :
        /\ fits[f].pc = "estimated"
        /\ fits[f].optimizer.kind \in {"returns", "hangs"}
        /\ fits[f].old_handler = AppHandler
        /\ sigalrm_handler = AppHandler

(***************************************************************************)
(* SpecTaskLive: an analysis request whose task meets failures of the      *)
(* object storage and of the experiment tracking.  The database session is *)
(* taken as reliable: session.commit() returns.                            *)
(***************************************************************************)
\* the files of one or two columns, each a binary column, a column of ones
\* or a rated column with a missing cell
LiveColumns == {c \in FileColumns : c.cells[2] \in {<<1>>, <<6>>}}

LiveFiles == UNION {[1..n -> LiveColumns] : n \in 1..2}

StorageOutcomes == {"returns", "raises"}
TrackingOutcomes == {"returns", "raises_before_fit", "raises_at_exit"}

InitTaskLive ==
    /\ \E columns \in LiveFiles, tsv \in BOOLEAN, model_type \in {"2PL", "RSM"},
          storage \in StorageOutcomes, tracking \in TrackingOutcomes :
          task = RequestWith(columns, tsv, model_type, storage, tracking)
    /\ fits = [f \in {1} |-> Idle]
    /\ sigalrm_handler = DefaultHandler
    /\ alarm = NoAlarm
    /\ killed = FALSE
    /\ dich = Idle
    /\ shape = Idle
    /\ post = Idle

\* the enabling condition of TaskRun (its guard)
TaskRunEnabled == task.pc = "running"

\* the background task, once scheduled, is started and runs to its end
SpecTaskLive ==
    /\ InitTaskLive /\ [][NextTask]_vars
    /\ WF_vars(UploadDataset) /\ WF_vars(CreateAnalysis) /\ WF_vars(TaskStart)
    /\ ([]<>~TaskRunEnabled \/ []<><<TaskRun>>_vars)

\* the task has ended and its last commit holds this status
CommittedAs(status) == task.pc = "finished" /\ task.analysis.status = status

C29_CompletedReached == CommittedAs("completed") /\ task.model_type = "RSM"

(***************************************************************************)
(* SpecWright: a fit in any estimation mode, its result stored as          *)
(* run_analysis_task stores it, and the Wright map built from the stored   *)
(* result                                                                  *)
(***************************************************************************)
\* analysis.py 174-232: item_parameters and ability_estimates of a
\* polytomous result as stored on the analysis
StoredPolytomousItems(result) ==
    [items |-> Stored(Array([n \in DOMAIN result.difficulty |->
        [name |-> n, difficulty |-> Stored(result.difficulty[n]),
         thresholds |-> Stored(ItemThresholds(result.thresholds,
                                              result.model_type, n))]]))]

StoredPolytomousAbilities(result) ==
    [persons |-> Stored(Array([i \in DOMAIN result.theta |->
                                  [theta |-> result.theta[i]]]))]

\* a matrix given by its rows of raw scores
MatrixOf(rows) ==
    Array([i \in DOMAIN rows |-> Array([j \in DOMAIN rows[i] |-> <<rows[i][j]>>])])

\* six persons by three items near the ceiling (five persons with two of
\* three, one with all), the same near the floor, four persons by two items
\* of three categories around the middle, two persons with one category,
\* two persons by two items
WrightMatrices ==
    {MatrixOf(<<<<2, 2, 1>>, <<2, 1, 2>>, <<1, 2, 2>>, <<2, 2, 1>>, <<2, 1, 2>>,
               <<2, 2, 2>>>>),
     MatrixOf(<<<<1, 1, 2>>, <<1, 2, 1>>, <<2, 1, 1>>, <<1, 1, 2>>, <<1, 2, 1>>,
               <<1, 1, 1>>>>),
     MatrixOf(<<<<1, 2>>, <<2, 3>>, <<3, 1>>, <<2, 2>>>>),
     MatrixOf(<<<<2, 2>>, <<2, 2>>>>),
     MatrixOf(<<<<1, 2>>, <<2, 1>>>>)}

InitWright ==
    /\ \E c \in Calls(WrightMatrices, PolytomousTypes, CallModes) :
          fits = [f \in {1} |-> c]
    /\ sigalrm_handler = DefaultHandler
    /\ alarm = NoAlarm
    /\ killed = FALSE
    /\ dich = Idle
    /\ task = Idle
    /\ shape = Idle
    /\ post = Idle

\* fit_polytomous_model, the whole call
FitPolytomousModel ==
    /\ fits[1].pc = "start"
    /\ fits' = [fits EXCEPT ![1] = SoloFit(fits[1])]
    /\ UNCHANGED <<sigalrm_handler, alarm, killed, dich, task, shape, post>>

\* compute_wright_map_data on the stored form of the fit's result
WrightMapOfFit ==
    /\ fits[1].pc = "done" /\ post = Idle
    /\ LET item_parameters == StoredPolytomousItems(fits[1].result)
           ability_estimates == StoredPolytomousAbilities(fits[1].result)
       IN  post' = BuilderEnded(
                     BuilderCall("compute_wright_map_data", item_parameters,
                                 ability_estimates, Null),
                     compute_wright_map_data(item_parameters, ability_estimates))
    /\ UNCHANGED <<fits, sigalrm_handler, alarm, killed, dich, task, shape>>

NextWright == FitPolytomousModel \/ WrightMapOfFit

SpecWright == InitWright /\ [][NextWright]_vars

\* the Wright map of the stored result has been returned
WrightMapReturned ==
    /\ post.pc = "done" /\ post.entry = "compute_wright_map_data"
    /\ post.result.kind = "returns"

\* the sum of the counts of the returned person distribution
CountedPersons == SumSeq(Array([b \in DOMAIN post.result.value.persons |->
                                   post.result.value.persons[b].count]))

\* the stored persons
StoredPersonsOf(c) == c.ability_estimates.persons[1]

\* C30: in the Wright-map data every stored person is counted in exactly
\* one ability bin: the counts of the returned person distribution sum to
\* the number of stored persons, for the thetas of every estimation mode
C30_EveryPersonCounted ==
    WrightMapReturned => CountedPersons = Len(StoredPersonsOf(post))

\* every stored theta is a number within [-4, 4]
ThetasOnTheMap(c) ==
    \A n \in DOMAIN StoredPersonsOf(c) :
        /\ StoredPersonsOf(c)[n].theta # NaNMilli
        /\ StoredPersonsOf(c)[n].theta >= 0 - 4000
        /\ StoredPersonsOf(c)[n].theta <= 4000

\* the persons are all counted when every stored theta lies within [-4, 4]
C30_CountedWithinTheBins ==
    (WrightMapReturned /\ ThetasOnTheMap(post)) =>
        CountedPersons = Len(StoredPersonsOf(post))

\* a JMLE fit near the ceiling stored a theta above 4.0 and the map's
\* counts miss that person while max_logit reaches beyond the theta
C30_PersonAboveTheBins ==
    /\ WrightMapReturned
    /\ fits[1].effective_mode = "jmle"
    /\ \E n \in DOMAIN StoredPersonsOf(post) : StoredPersonsOf(post)[n].theta > 4000
    /\ CountedPersons = Len(StoredPersonsOf(post)) - 1
    /\ post.result.value.max_logit > 4000

====
